---- MODULE Spec2Model ----
(***************************************************************************)
(* CentralAuth: a stateless OAuth/OpenID broker.                           *)
(*                                                                         *)
(* The model covers the client registry, the provider registry, the HMAC   *)
(* state-token service, the AES-GCM exchange codec, the Discord and Steam  *)
(* providers, the three flow handlers /auth/{provider},                    *)
(* /callback/{provider} and /exchange, the server's life cycle, and the    *)
(* Go and TypeScript client SDKs.                                          *)
(*                                                                         *)
(* Cryptography is modelled symbolically: an HMAC is the pair (key, data)  *)
(* and an AEAD box is (key, nonce, plaintext); a party that does not hold  *)
(* the key cannot build either.  Time is counted in whole seconds.         *)
(***************************************************************************)
EXTENDS Integers, Sequences, FiniteSets, TLC

VARIABLES
    clients,        \* client.Registry: [byID, byAPIKey]
    providers,      \* auth.Registry: map name -> provider
    stateService,   \* state.Service: [key, expiry]
    codec,          \* exchange.Codec: [key, expiry]
    now,            \* the clock both services read (seconds)
    elapsed,        \* the clock advances made so far (each duration once)
    carriedState,   \* the state token the browser carries ("" when none)
    carriedCode,    \* the exchange code the client backend holds ("" when none)
    last            \* the most recent request and its response

vars == <<clients, providers, stateService, codec, now, elapsed, carriedState, carriedCode, last>>

----------------------------------------------------------------------------
(* Bounds of the exploration *)

MaxTicks == 2
MaxRegisterCalls == 3
MaxRequests == 4
MaxInFlight == 2

----------------------------------------------------------------------------
(* Program constants *)

defaultExpiry == 300
defaultCodeExpiry == 30

StatusOK == 200
StatusFound == 302
StatusBadRequest == 400
StatusUnauthorized == 401
StatusForbidden == 403
StatusInternalServerError == 500
StatusBadGateway == 502

\* domain errors
ErrClientNotFound == "client not found"
ErrInvalidAPIKey == "invalid API key"
ErrCallbackNotAllowed == "callback URI not allowed"
ErrProviderNotAllowed == "provider not allowed for this client"
ErrDuplicateClientID == "duplicate client ID"
ErrProviderNotFound == "provider not found"
ErrDuplicateProvider == "duplicate provider registration"
ErrProviderExchange == "provider exchange failed"
ErrProviderUserFetch == "failed to fetch user from provider"
ErrMissingProviderParams == "missing required provider parameters"
ErrInvalidState == "invalid state token"
ErrExpiredState == "expired state token"
ErrMalformedState == "malformed state token"
ErrInvalidExchangeCode == "invalid exchange code"
ErrExpiredExchangeCode == "expired exchange code"
NoErr == "ok"

----------------------------------------------------------------------------
(* Small helpers *)

EmptyMap == [x \in {} |-> x]

MapSet(m, k, v) == [x \in (DOMAIN m) \cup {k} |-> IF x = k THEN v ELSE m[x]]

Range(s) == {s[i] : i \in DOMAIN s}

----------------------------------------------------------------------------
(* domain: models *)

ZeroUser ==
    [ProviderName |-> "", ProviderID |-> "", Username |-> "",
     DisplayName |-> "", AvatarURL |-> "", Email |-> ""]

ZeroClient ==
    [ID |-> "", Name |-> "", APIKey |-> "",
     AllowedCallbacks |-> <<>>, AllowedProviders |-> <<>>]

ZeroStatePayload ==
    [ClientID |-> "", Provider |-> "", RedirectURI |-> "", Nonce |-> "", ExpiresAt |-> 0]

ZeroExchangePayload == [ClientID |-> "", ExpiresAt |-> 0, User |-> ZeroUser]

\* encoding/json of UserInfo: `email` carries omitempty
MarshalUser(u) ==
    LET keys == {"provider", "provider_id", "username", "display_name", "avatar_url"}
                \cup (IF u.Email # "" THEN {"email"} ELSE {})
    IN [k \in keys |->
          CASE k = "provider" -> u.ProviderName
            [] k = "provider_id" -> u.ProviderID
            [] k = "username" -> u.Username
            [] k = "display_name" -> u.DisplayName
            [] k = "avatar_url" -> u.AvatarURL
            [] k = "email" -> u.Email]

\* a decoder that fills the display name from the username
UnmarshalUser_DisplayFromUsername(j) ==
    [ProviderName |-> j["provider"], ProviderID |-> j["provider_id"],
     Username |-> j["username"], DisplayName |-> j["username"],
     AvatarURL |-> j["avatar_url"],
     Email |-> IF "email" \in DOMAIN j THEN j["email"] ELSE ""]

UnmarshalUser(j) ==
    [ProviderName |-> j["provider"], ProviderID |-> j["provider_id"],
     Username |-> j["username"], DisplayName |-> j["display_name"],
     AvatarURL |-> j["avatar_url"],
     Email |-> IF "email" \in DOMAIN j THEN j["email"] ELSE ""]

MarshalState(p) ==
    [cid |-> p.ClientID, prv |-> p.Provider, rdr |-> p.RedirectURI,
     nce |-> p.Nonce, exp |-> p.ExpiresAt]

\* a decoder that reads the redirect URI from the wrong key
UnmarshalState_WrongKey(j) ==
    [ClientID |-> j.cid, Provider |-> j.prv, RedirectURI |-> j.prv,
     Nonce |-> j.nce, ExpiresAt |-> j.exp]

UnmarshalState(j) ==
    [ClientID |-> j.cid, Provider |-> j.prv, RedirectURI |-> j.rdr,
     Nonce |-> j.nce, ExpiresAt |-> j.exp]

MarshalExchange(p) ==
    [cid |-> p.ClientID, exp |-> p.ExpiresAt, user |-> MarshalUser(p.User)]

UnmarshalExchange(j) ==
    [ClientID |-> j.cid, ExpiresAt |-> j.exp, User |-> UnmarshalUser(j.user)]

----------------------------------------------------------------------------
(* client: Registry *)

\* crypto/hmac.Equal: constant-time byte equality
hmacEqual(a, b) == a = b

RECURSIVE NewRegistryFrom(_, _, _)
NewRegistryFrom(list, i, r) ==
    IF i > Len(list)
    THEN [err |-> NoErr, byID |-> r.byID, byAPIKey |-> r.byAPIKey]
    ELSE LET c == list[i] IN
         IF c.ID \in DOMAIN r.byID
         THEN [err |-> ErrDuplicateClientID, byID |-> EmptyMap, byAPIKey |-> EmptyMap]
         ELSE NewRegistryFrom(list, i + 1,
                  [byID |-> MapSet(r.byID, c.ID, c),
                   byAPIKey |-> MapSet(r.byAPIKey, c.APIKey, c)])

\* a constructor that keeps the last record of each id instead of failing
NewRegistry_LastWins(list) ==
    [err |-> NoErr,
     byID |-> [id \in {list[i].ID : i \in DOMAIN list} |->
                 list[CHOOSE i \in DOMAIN list :
                        /\ list[i].ID = id
                        /\ \A j \in DOMAIN list : list[j].ID = id => j <= i]],
     byAPIKey |-> [k \in {list[i].APIKey : i \in DOMAIN list} |->
                     list[CHOOSE i \in DOMAIN list :
                            /\ list[i].APIKey = k
                            /\ \A j \in DOMAIN list : list[j].APIKey = k => j <= i]]]

NewRegistry(list) == NewRegistryFrom(list, 1, [byID |-> EmptyMap, byAPIKey |-> EmptyMap])

Get(r, clientID) ==
    IF clientID \in DOMAIN r.byID
    THEN [err |-> NoErr, client |-> r.byID[clientID]]
    ELSE [err |-> ErrClientNotFound, client |-> ZeroClient]

\* a lookup that falls back to some registered client when no key matches
GetByAPIKey_Fallback(r, apiKey) ==
    IF \E key \in DOMAIN r.byAPIKey : hmacEqual(key, apiKey)
    THEN [err |-> NoErr,
          client |-> r.byAPIKey[CHOOSE key \in DOMAIN r.byAPIKey : hmacEqual(key, apiKey)]]
    ELSE [err |-> NoErr,
          client |-> r.byAPIKey[CHOOSE key \in DOMAIN r.byAPIKey : TRUE]]

GetByAPIKey(r, apiKey) ==
    IF \E key \in DOMAIN r.byAPIKey : hmacEqual(key, apiKey)
    THEN [err |-> NoErr,
          client |-> r.byAPIKey[CHOOSE key \in DOMAIN r.byAPIKey : hmacEqual(key, apiKey)]]
    ELSE [err |-> ErrInvalidAPIKey, client |-> ZeroClient]

\* ValidateCallback that accepts a URI starting with an allowed entry
ValidateCallback_PrefixMatch(r, clientID, callbackURI) ==
    LET g == Get(r, clientID) IN
    IF g.err # NoErr THEN g.err
    ELSE IF \E i \in DOMAIN g.client.AllowedCallbacks :
                LET allowed == g.client.AllowedCallbacks[i] IN
                /\ Len(callbackURI) >= Len(allowed)
                /\ SubSeq(callbackURI, 1, Len(allowed)) = allowed
         THEN NoErr
         ELSE ErrCallbackNotAllowed

\* ValidateCallback that accepts a URI found in any client's allowlist
ValidateCallback_AnyClient(r, clientID, callbackURI) ==
    LET g == Get(r, clientID) IN
    IF g.err # NoErr THEN g.err
    ELSE IF \E id \in DOMAIN r.byID : \E i \in DOMAIN r.byID[id].AllowedCallbacks :
                r.byID[id].AllowedCallbacks[i] = callbackURI
         THEN NoErr
         ELSE ErrCallbackNotAllowed

ValidateCallback(r, clientID, callbackURI) ==
    LET g == Get(r, clientID) IN
    IF g.err # NoErr THEN g.err
    ELSE IF \E i \in DOMAIN g.client.AllowedCallbacks :
                g.client.AllowedCallbacks[i] = callbackURI
         THEN NoErr
         ELSE ErrCallbackNotAllowed

ValidateProvider(r, clientID, provider) ==
    LET g == Get(r, clientID) IN
    IF g.err # NoErr THEN g.err
    ELSE IF \E i \in DOMAIN g.client.AllowedProviders :
                g.client.AllowedProviders[i] = provider
         THEN NoErr
         ELSE ErrProviderNotAllowed

----------------------------------------------------------------------------
(* auth: provider Registry *)

\* Register that reports the duplicate and still stores the new provider
Register_Overwrites(reg, p) ==
    IF p.name \in DOMAIN reg
    THEN [err |-> ErrDuplicateProvider, reg |-> MapSet(reg, p.name, p)]
    ELSE [err |-> NoErr, reg |-> MapSet(reg, p.name, p)]

\* p is the provider; p.name is what p.Name() returns
Register(reg, p) ==
    IF p.name \in DOMAIN reg
    THEN [err |-> ErrDuplicateProvider, reg |-> reg]
    ELSE [err |-> NoErr, reg |-> MapSet(reg, p.name, p)]

ProviderGet(reg, name) ==
    IF name \in DOMAIN reg
    THEN [err |-> NoErr, provider |-> reg[name]]
    ELSE [err |-> ErrProviderNotFound, provider |-> [name |-> ""]]

\* Names: the registered names (the code returns them in map order)
Names(reg) == DOMAIN reg

----------------------------------------------------------------------------
(* state: Service *)

\* A payload segment of a token: base64url text that may or may not decode,
\* and whose decoded bytes may or may not be a JSON StatePayload.
Segment(j) == [b64 |-> TRUE, json |-> TRUE, obj |-> j]
SegmentNotBase64 == [b64 |-> FALSE, json |-> FALSE, obj |-> MarshalState(ZeroStatePayload)]
SegmentNotJSON == [b64 |-> TRUE, json |-> FALSE, obj |-> MarshalState(ZeroStatePayload)]

\* a state service whose tokens live for a day
NewService_DayLong(key) == [key |-> key, expiry |-> 86400]

NewService(key) == [key |-> key, expiry |-> defaultExpiry]

\* a signature that does not depend on the signed segment
sign_IgnoresData(s, data) == [key |-> s.key, data |-> SegmentNotBase64]

\* HMAC-SHA256 of the segment under the service key, base64url-encoded
sign(s, data) == [key |-> s.key, data |-> data]

GarbageSig == [key |-> "", data |-> SegmentNotBase64]

\* token strings: "" , text without a `.`, or  <segment> "." <signature>
EmptyToken == [kind |-> "empty", enc |-> SegmentNotBase64, sig |-> GarbageSig]
NoDotToken == [kind |-> "nodot", enc |-> SegmentNotBase64, sig |-> GarbageSig]
Dotted(enc, sig) == [kind |-> "dotted", enc |-> enc, sig |-> sig]

\* Generate that fills the lifetime fields only where the caller left them zero
Generate_KeepsCallerFields(s, clock, nonce, payload) ==
    LET p == [payload EXCEPT
                !.Nonce = IF payload.Nonce = "" THEN nonce ELSE payload.Nonce,
                !.ExpiresAt = IF payload.ExpiresAt = 0 THEN clock + s.expiry
                              ELSE payload.ExpiresAt]
        encoded == Segment(MarshalState(p))
    IN Dotted(encoded, sign(s, encoded))

Generate(s, clock, nonce, payload) ==
    LET p == [payload EXCEPT !.Nonce = nonce, !.ExpiresAt = clock + s.expiry]
        encoded == Segment(MarshalState(p))
    IN Dotted(encoded, sign(s, encoded))

\* Validate that already rejects a token at the instant it expires
Validate_ExclusiveExpiry(s, clock, token) ==
    IF token.kind # "dotted"
    THEN [err |-> ErrMalformedState, payload |-> ZeroStatePayload]
    ELSE IF ~hmacEqual(token.sig, sign(s, token.enc))
    THEN [err |-> ErrInvalidState, payload |-> ZeroStatePayload]
    ELSE IF ~token.enc.b64
    THEN [err |-> ErrMalformedState, payload |-> ZeroStatePayload]
    ELSE IF ~token.enc.json
    THEN [err |-> ErrMalformedState, payload |-> ZeroStatePayload]
    ELSE LET payload == UnmarshalState(token.enc.obj) IN
         IF clock >= payload.ExpiresAt
         THEN [err |-> ErrExpiredState, payload |-> ZeroStatePayload]
         ELSE [err |-> NoErr, payload |-> payload]

\* Validate that decodes and parses the payload before it checks the signature
Validate_DecodeFirst(s, clock, token) ==
    IF token.kind # "dotted"
    THEN [err |-> ErrMalformedState, payload |-> ZeroStatePayload]
    ELSE IF ~token.enc.b64
    THEN [err |-> ErrMalformedState, payload |-> ZeroStatePayload]
    ELSE IF ~token.enc.json
    THEN [err |-> ErrMalformedState, payload |-> ZeroStatePayload]
    ELSE IF ~hmacEqual(token.sig, sign(s, token.enc))
    THEN [err |-> ErrInvalidState, payload |-> ZeroStatePayload]
    ELSE LET payload == UnmarshalState(token.enc.obj) IN
         IF clock > payload.ExpiresAt
         THEN [err |-> ErrExpiredState, payload |-> ZeroStatePayload]
         ELSE [err |-> NoErr, payload |-> payload]

Validate(s, clock, token) ==
    IF token.kind # "dotted"
    THEN [err |-> ErrMalformedState, payload |-> ZeroStatePayload]
    ELSE IF ~hmacEqual(token.sig, sign(s, token.enc))
    THEN [err |-> ErrInvalidState, payload |-> ZeroStatePayload]
    ELSE IF ~token.enc.b64
    THEN [err |-> ErrMalformedState, payload |-> ZeroStatePayload]
    ELSE IF ~token.enc.json
    THEN [err |-> ErrMalformedState, payload |-> ZeroStatePayload]
    ELSE LET payload == UnmarshalState(token.enc.obj) IN
         IF clock > payload.ExpiresAt
         THEN [err |-> ErrExpiredState, payload |-> ZeroStatePayload]
         ELSE [err |-> NoErr, payload |-> payload]

----------------------------------------------------------------------------
(* exchange: Codec *)

\* the key lengths crypto/aes.NewCipher accepts (AES-128, AES-192, AES-256)
AESKeySizes == {16, 24, 32}

ZeroCodec == [key |-> "", expiry |-> 0]

\* NewCodec fails only when aes.NewCipher refuses the key; cipher.NewGCM
\* accepts every AES block
NewCodec(key) ==
    IF Len(key) \notin AESKeySizes
    THEN [err |-> "creating AES cipher", codec |-> ZeroCodec]
    ELSE [err |-> NoErr, codec |-> [key |-> key, expiry |-> defaultCodeExpiry]]

Plain(j) == [json |-> TRUE, obj |-> j]

\* cipher.AEAD of AES-GCM: NonceSize() and Overhead() in bytes
NonceSize == 12
TagSize == 16

\* length of the JSON text of a time.Time (RFC 3339 with nanoseconds, UTC)
TimeTextLen == 30

\* length in bytes of json.Marshal of an ExchangePayload
JSONLen(j) ==
    Len("{\"cid\":\"\",\"exp\":\"\",\"user\":{\"provider\":\"\",\"provider_id\":\"\",")
    + Len("\"username\":\"\",\"display_name\":\"\",\"avatar_url\":\"\"}}")
    + Len(j.cid) + TimeTextLen
    + Len(j.user["provider"]) + Len(j.user["provider_id"]) + Len(j.user["username"])
    + Len(j.user["display_name"]) + Len(j.user["avatar_url"])
    + (IF "email" \in DOMAIN j.user
       THEN Len(",\"email\":\"\"") + Len(j.user["email"]) ELSE 0)

\* base64.RawURLEncoding of n bytes: the number of low bits of the last
\* character that carry no data (the encoder writes them as zero)
TrailingBits(n) == (6 - ((8 * n) % 6)) % 6

\* code strings: "", text that is not base64url, fewer bytes than a nonce,
\* or nonce || AEAD box; `intact` is false once any bit of the box changed;
\* `trailing` counts the unused low bits of the last character and
\* `trailingSet` tells whether any of them is 1
EmptyCode ==
    [kind |-> "empty", key |-> "", nonce |-> "", intact |-> FALSE,
     pt |-> Plain(MarshalExchange(ZeroExchangePayload)),
     trailing |-> 0, trailingSet |-> FALSE]
NotBase64Code == [EmptyCode EXCEPT !.kind = "notb64"]
ShortCode == [EmptyCode EXCEPT !.kind = "short"]
Sealed(key, nonce, pt) ==
    [kind |-> "sealed", key |-> key, nonce |-> nonce, intact |-> TRUE, pt |-> pt,
     trailing |-> TrailingBits(NonceSize + JSONLen(pt.obj) + TagSize),
     trailingSet |-> FALSE]

\* an AEAD that opens a box sealed under any key
Open_AnyKey(c, code) == code.kind = "sealed" /\ code.intact

\* cipher.AEAD.Open: succeeds only for an untouched box sealed under the same key
Open(c, code) == code.kind = "sealed" /\ code.key = c.key /\ code.intact

Encode(c, clock, nonce, payload) ==
    LET p == [payload EXCEPT !.ExpiresAt = clock + c.expiry]
    IN Sealed(c.key, nonce, Plain(MarshalExchange(p)))

\* Decode that already rejects a code at the instant it expires
Decode_ExclusiveExpiry(c, clock, code) ==
    IF code.kind = "notb64"
    THEN [err |-> ErrInvalidExchangeCode, payload |-> ZeroExchangePayload]
    ELSE IF code.kind \in {"empty", "short"}
    THEN [err |-> ErrInvalidExchangeCode, payload |-> ZeroExchangePayload]
    ELSE IF ~Open(c, code)
    THEN [err |-> ErrInvalidExchangeCode, payload |-> ZeroExchangePayload]
    ELSE IF ~code.pt.json
    THEN [err |-> ErrInvalidExchangeCode, payload |-> ZeroExchangePayload]
    ELSE LET payload == UnmarshalExchange(code.pt.obj) IN
         IF clock >= payload.ExpiresAt
         THEN [err |-> ErrExpiredExchangeCode, payload |-> ZeroExchangePayload]
         ELSE [err |-> NoErr, payload |-> payload]

\* Decode that reports an input shorter than a nonce with an error of its own
Decode_ShortIsMalformed(c, clock, code) ==
    IF code.kind = "notb64"
    THEN [err |-> ErrInvalidExchangeCode, payload |-> ZeroExchangePayload]
    ELSE IF code.kind \in {"empty", "short"}
    THEN [err |-> ErrMalformedState, payload |-> ZeroExchangePayload]
    ELSE IF ~Open(c, code)
    THEN [err |-> ErrInvalidExchangeCode, payload |-> ZeroExchangePayload]
    ELSE IF ~code.pt.json
    THEN [err |-> ErrInvalidExchangeCode, payload |-> ZeroExchangePayload]
    ELSE LET payload == UnmarshalExchange(code.pt.obj) IN
         IF clock > payload.ExpiresAt
         THEN [err |-> ErrExpiredExchangeCode, payload |-> ZeroExchangePayload]
         ELSE [err |-> NoErr, payload |-> payload]

\* Decode that reads the expiry of a box it could not authenticate
Decode_ExpiryFirst(c, clock, code) ==
    IF code.kind = "notb64"
    THEN [err |-> ErrInvalidExchangeCode, payload |-> ZeroExchangePayload]
    ELSE IF code.kind \in {"empty", "short"}
    THEN [err |-> ErrInvalidExchangeCode, payload |-> ZeroExchangePayload]
    ELSE IF code.pt.json /\ clock > UnmarshalExchange(code.pt.obj).ExpiresAt
    THEN [err |-> ErrExpiredExchangeCode, payload |-> ZeroExchangePayload]
    ELSE IF ~Open(c, code)
    THEN [err |-> ErrInvalidExchangeCode, payload |-> ZeroExchangePayload]
    ELSE IF ~code.pt.json
    THEN [err |-> ErrInvalidExchangeCode, payload |-> ZeroExchangePayload]
    ELSE [err |-> NoErr, payload |-> UnmarshalExchange(code.pt.obj)]

\* base64.RawURLEncoding.DecodeString is not strict: the unused low bits of
\* the last character are dropped whatever their value
Decode(c, clock, code) ==
    IF code.kind = "notb64"
    THEN [err |-> ErrInvalidExchangeCode, payload |-> ZeroExchangePayload]
    ELSE IF code.kind \in {"empty", "short"}
    THEN [err |-> ErrInvalidExchangeCode, payload |-> ZeroExchangePayload]
    ELSE IF ~Open(c, code)
    THEN [err |-> ErrInvalidExchangeCode, payload |-> ZeroExchangePayload]
    ELSE IF ~code.pt.json
    THEN [err |-> ErrInvalidExchangeCode, payload |-> ZeroExchangePayload]
    ELSE LET payload == UnmarshalExchange(code.pt.obj) IN
         IF clock > payload.ExpiresAt
         THEN [err |-> ErrExpiredExchangeCode, payload |-> ZeroExchangePayload]
         ELSE [err |-> NoErr, payload |-> payload]

----------------------------------------------------------------------------
(* providers: discord and steam *)

NoCalls == <<>>

\* fmt.Sprintf("https://cdn.discordapp.com/avatars/%s/%s.png", id, avatar)
AvatarPNG(id, avatar) ==
    IF id = "987654321" /\ avatar = "abc"
    THEN "https://cdn.discordapp.com/avatars/987654321/abc.png"
    ELSE "https://cdn.discordapp.com/avatars/<id>/<avatar>.png"

\* map lookup `v, ok := params[key]` followed by `!ok || v == ""`
Missing(params, key) == key \notin DOMAIN params \/ params[key] = ""

\* exchangeCode that takes an answer without an access token for a success
exchangeCode_AcceptsEmptyToken(ctxDone, up) ==
    IF ctxDone
    THEN [err |-> ErrProviderExchange, token |-> ""]
    ELSE IF up.tokenStatus # StatusOK
    THEN [err |-> ErrProviderExchange, token |-> ""]
    ELSE IF ~up.tokenJSON
    THEN [err |-> ErrProviderExchange, token |-> ""]
    ELSE [err |-> NoErr, token |-> up.accessToken]

\* discord exchangeCode: POST to the token endpoint.  ctxDone: the context of
\* the inbound request is cancelled, so httpClient.Do (or the read of the
\* body) returns the context's error.
exchangeCode(ctxDone, up) ==
    IF ctxDone
    THEN [err |-> ErrProviderExchange, token |-> ""]
    ELSE IF up.tokenStatus # StatusOK
    THEN [err |-> ErrProviderExchange, token |-> ""]
    ELSE IF ~up.tokenJSON
    THEN [err |-> ErrProviderExchange, token |-> ""]
    ELSE IF up.accessToken = ""
    THEN [err |-> ErrProviderExchange, token |-> ""]
    ELSE [err |-> NoErr, token |-> up.accessToken]

\* fetchUser whose request does not carry the context of the inbound request
fetchUser_IgnoresContext(ctxDone, up) ==
    IF up.userStatus # StatusOK
    THEN [err |-> ErrProviderUserFetch, user |-> ZeroUser]
    ELSE IF ~up.userJSON
    THEN [err |-> ErrProviderUserFetch, user |-> ZeroUser]
    ELSE LET du == up.du IN
         [err |-> NoErr,
          user |-> [ProviderName |-> "discord",
                    ProviderID |-> du.id,
                    Username |-> du.username,
                    DisplayName |-> IF du.global_name = "" THEN du.username
                                    ELSE du.global_name,
                    AvatarURL |-> IF du.avatar # "" THEN AvatarPNG(du.id, du.avatar)
                                  ELSE "",
                    Email |-> du.email]]

\* discord fetchUser: GET of the user endpoint with the access token
fetchUser(ctxDone, up) ==
    IF ctxDone
    THEN [err |-> ErrProviderUserFetch, user |-> ZeroUser]
    ELSE IF up.userStatus # StatusOK
    THEN [err |-> ErrProviderUserFetch, user |-> ZeroUser]
    ELSE IF ~up.userJSON
    THEN [err |-> ErrProviderUserFetch, user |-> ZeroUser]
    ELSE LET du == up.du IN
         [err |-> NoErr,
          user |-> [ProviderName |-> "discord",
                    ProviderID |-> du.id,
                    Username |-> du.username,
                    DisplayName |-> IF du.global_name = "" THEN du.username
                                    ELSE du.global_name,
                    AvatarURL |-> IF du.avatar # "" THEN AvatarPNG(du.id, du.avatar)
                                  ELSE "",
                    Email |-> du.email]]

DiscordExchange(params, up) ==
    IF Missing(params, "code")
    THEN [err |-> ErrMissingProviderParams, user |-> ZeroUser, calls |-> NoCalls]
    ELSE IF exchangeCode(FALSE, up).err # NoErr
    THEN [err |-> exchangeCode(FALSE, up).err, user |-> ZeroUser,
          calls |-> <<"discord-token">>]
    ELSE [err |-> fetchUser(FALSE, up).err, user |-> fetchUser(FALSE, up).user,
          calls |-> <<"discord-token", "discord-user">>]

\* strings.HasPrefix
HasPrefix(s, prefix) == Len(s) >= Len(prefix) /\ SubSeq(s, 1, Len(prefix)) = prefix

\* the form validateAssertion posts: every openid.* parameter of the callback,
\* with openid.mode set to check_authentication
verifyParams(params) ==
    [k \in {x \in DOMAIN params : HasPrefix(x, "openid.")} \cup {"openid.mode"} |->
        IF k = "openid.mode" THEN "check_authentication" ELSE params[k]]

\* validateAssertion that takes any answer of the endpoint for a confirmation
validateAssertion_AnyAnswer(ctxDone, up) ==
    IF ctxDone THEN ErrProviderExchange
    ELSE NoErr

\* steam validateAssertion: up.isValid tells whether the body of the answer
\* contains `is_valid:true`
validateAssertion(ctxDone, up) ==
    IF ctxDone THEN ErrProviderExchange
    ELSE IF ~up.isValid THEN ErrProviderExchange
    ELSE NoErr

Digits == {"0", "1", "2", "3", "4", "5", "6", "7", "8", "9"}

\* steamIDRegex, `https?://steamcommunity\.com/openid/id/(\d+)`: the two texts
\* that precede the digits
steamIDRegex ==
    {"http://steamcommunity.com/openid/id/", "https://steamcommunity.com/openid/id/"}

\* the regexp matches at position i: one of the texts, then a digit
MatchesAt(s, i, p) ==
    /\ i + Len(p) <= Len(s)
    /\ SubSeq(s, i, i + Len(p) - 1) = p
    /\ SubSeq(s, i + Len(p), i + Len(p)) \in Digits

\* steamIDRegex.FindStringSubmatch: the leftmost match anywhere in the text,
\* its group the longest run of digits ("" = no match)
FindStringSubmatch(claimedID) ==
    LET starts == {m \in (1..Len(claimedID)) \X steamIDRegex :
                      MatchesAt(claimedID, m[1], m[2])}
    IN IF starts = {} THEN ""
       ELSE LET m == CHOOSE x \in starts : \A y \in starts : x[1] <= y[1]
                from == m[1] + Len(m[2])
                to == CHOOSE j \in from..Len(claimedID) :
                         /\ \A k \in from..j : SubSeq(claimedID, k, k) \in Digits
                         /\ j = Len(claimedID)
                               \/ SubSeq(claimedID, j + 1, j + 1) \notin Digits
            IN SubSeq(claimedID, from, to)

SteamIdentity == "https://steamcommunity.com/openid/id/76561198000000001"

\* the claimed ids of the model: Steam's identity URL; the same without its
\* digits, with text after the digits, and on another path; identity URLs of
\* other hosts, one of them carrying Steam's URL in its query
ClaimedIDInputs ==
    { SteamIdentity,
      "http://steamcommunity.com/openid/id/76561198000000001",
      "https://steamcommunity.com/openid/id/",
      "https://steamcommunity.com/openid/id/76561198000000001/../../evil",
      "https://steamcommunity.com/id/76561198000000001",
      "https://steamcommunity.com.evil.example/openid/id/42",
      "https://evil.example/openid/id/76561198000000001",
      "https://evil.example/?u=https://steamcommunity.com/openid/id/42",
      "not-a-url" }

\* the match of each claimed id, computed once
steamIDMatches == [c \in ClaimedIDInputs |-> FindStringSubmatch(c)]

extractSteamID(claimedID) ==
    IF claimedID \in ClaimedIDInputs THEN steamIDMatches[claimedID]
    ELSE FindStringSubmatch(claimedID)

\* steam fetchPlayerSummary: GET of GetPlayerSummaries for the extracted id
fetchPlayerSummary(ctxDone, up) ==
    IF ctxDone
    THEN [err |-> ErrProviderUserFetch, user |-> ZeroUser]
    ELSE IF up.summaryStatus # StatusOK
    THEN [err |-> ErrProviderUserFetch, user |-> ZeroUser]
    ELSE IF ~up.summaryJSON
    THEN [err |-> ErrProviderUserFetch, user |-> ZeroUser]
    ELSE IF Len(up.players) = 0
    THEN [err |-> ErrProviderUserFetch, user |-> ZeroUser]
    ELSE LET player == up.players[1] IN
         [err |-> NoErr,
          user |-> [ProviderName |-> "steam",
                    ProviderID |-> player.steamid,
                    Username |-> player.personaname,
                    DisplayName |-> player.personaname,
                    AvatarURL |-> player.avatarfull,
                    Email |-> ""]]

SteamExchange(params, up) ==
    IF Missing(params, "openid.claimed_id")
    THEN [err |-> ErrMissingProviderParams, user |-> ZeroUser, calls |-> NoCalls]
    ELSE IF validateAssertion(FALSE, up) # NoErr
    THEN [err |-> validateAssertion(FALSE, up), user |-> ZeroUser,
          calls |-> <<"steam-check">>]
    ELSE IF extractSteamID(params["openid.claimed_id"]) = ""
    THEN [err |-> ErrProviderExchange, user |-> ZeroUser, calls |-> <<"steam-check">>]
    ELSE [err |-> fetchPlayerSummary(FALSE, up).err,
          user |-> fetchPlayerSummary(FALSE, up).user,
          calls |-> <<"steam-check", "steam-summary">>]

\* Provider.Exchange, dispatched on the registered provider
ProviderExchange(provider, params, up) ==
    IF provider.name = "discord" THEN DiscordExchange(params, up)
    ELSE SteamExchange(params, up)

\* Provider.AuthURL: the provider's authorize endpoint carrying the state token
AuthURL(provider, stateToken) ==
    [err |-> NoErr,
     url |-> IF provider.name = "discord"
             THEN "https://discord.com/api/oauth2/authorize"
             ELSE "https://steamcommunity.com/openid/login"]

----------------------------------------------------------------------------
(* handler: responses *)

NoBody == EmptyMap

NoLocation == [to |-> "", state |-> EmptyToken, code |-> EmptyCode]

writeError(status, msg) ==
    [status |-> status, error |-> msg, location |-> NoLocation,
     body |-> NoBody, invoked |-> FALSE, calls |-> NoCalls]

writeJSON(status, result) ==
    [status |-> status, error |-> "", location |-> NoLocation,
     body |-> [user |-> MarshalUser(result.User)], invoked |-> FALSE, calls |-> NoCalls]

\* a redirect that also writes the user of the code it carries into its body
Redirect_WithUser(to, stateToken, code) ==
    [status |-> StatusFound, error |-> "",
     location |-> [to |-> to, state |-> stateToken, code |-> code],
     body |-> IF code.kind = "sealed" THEN [user |-> code.pt.obj.user] ELSE EmptyMap,
     invoked |-> FALSE, calls |-> <<>>]

Redirect(to, stateToken, code) ==
    [status |-> StatusFound, error |-> "",
     location |-> [to |-> to, state |-> stateToken, code |-> code],
     body |-> NoBody, invoked |-> FALSE, calls |-> NoCalls]

\* net/url.Parse on the redirect URIs of the model
MalformedURIs == {"https://admin.example.com/%zz"}

urlParse(uri) == IF uri \in MalformedURIs THEN "parse-error" ELSE NoErr

----------------------------------------------------------------------------
(* handler: Authorize, GET /auth/{provider} *)

\* Authorize that consults the client's provider allowlist before the registry
Authorize_AllowedFirst(clientID, redirectURI, providerName, nonce) ==
    IF clientID = ""
    THEN writeError(StatusBadRequest, "missing client_id parameter")
    ELSE IF redirectURI = ""
    THEN writeError(StatusBadRequest, "missing redirect_uri parameter")
    ELSE IF providerName = ""
    THEN writeError(StatusBadRequest, "missing provider")
    ELSE IF Get(clients, clientID).err # NoErr
    THEN writeError(StatusBadRequest, "unknown client")
    ELSE IF ValidateCallback(clients, clientID, redirectURI) # NoErr
    THEN writeError(StatusBadRequest, "redirect_uri not allowed")
    ELSE IF ValidateProvider(clients, clientID, providerName) # NoErr
    THEN IF ValidateProvider(clients, clientID, providerName) = ErrProviderNotAllowed
         THEN writeError(StatusForbidden, "provider not allowed for this client")
         ELSE writeError(StatusBadRequest, "unknown client")
    ELSE IF ProviderGet(providers, providerName).err # NoErr
    THEN writeError(StatusBadRequest, "unknown provider")
    ELSE LET stateToken == Generate(stateService, now, nonce,
                               [ZeroStatePayload EXCEPT !.ClientID = clientID,
                                                        !.Provider = providerName,
                                                        !.RedirectURI = redirectURI])
             authURL == AuthURL(ProviderGet(providers, providerName).provider, stateToken)
         IN IF authURL.err # NoErr
            THEN writeError(StatusInternalServerError, "failed to generate auth URL")
            ELSE Redirect(authURL.url, stateToken, EmptyCode)

\* Authorize that issues a state token without consulting the callback allowlist
Authorize_NoCallbackCheck(clientID, redirectURI, providerName, nonce) ==
    IF clientID = ""
    THEN writeError(StatusBadRequest, "missing client_id parameter")
    ELSE IF redirectURI = ""
    THEN writeError(StatusBadRequest, "missing redirect_uri parameter")
    ELSE IF providerName = ""
    THEN writeError(StatusBadRequest, "missing provider")
    ELSE IF Get(clients, clientID).err # NoErr
    THEN writeError(StatusBadRequest, "unknown client")
    ELSE IF ProviderGet(providers, providerName).err # NoErr
    THEN writeError(StatusBadRequest, "unknown provider")
    ELSE IF ValidateProvider(clients, clientID, providerName) # NoErr
    THEN IF ValidateProvider(clients, clientID, providerName) = ErrProviderNotAllowed
         THEN writeError(StatusForbidden, "provider not allowed for this client")
         ELSE writeError(StatusBadRequest, "unknown client")
    ELSE LET stateToken == Generate(stateService, now, nonce,
                               [ZeroStatePayload EXCEPT !.ClientID = clientID,
                                                        !.Provider = providerName,
                                                        !.RedirectURI = redirectURI])
             authURL == AuthURL(ProviderGet(providers, providerName).provider, stateToken)
         IN IF authURL.err # NoErr
            THEN writeError(StatusInternalServerError, "failed to generate auth URL")
            ELSE Redirect(authURL.url, stateToken, EmptyCode)

Authorize(clientID, redirectURI, providerName, nonce) ==
    IF clientID = ""
    THEN writeError(StatusBadRequest, "missing client_id parameter")
    ELSE IF redirectURI = ""
    THEN writeError(StatusBadRequest, "missing redirect_uri parameter")
    ELSE IF providerName = ""
    THEN writeError(StatusBadRequest, "missing provider")
    ELSE IF Get(clients, clientID).err # NoErr
    THEN writeError(StatusBadRequest, "unknown client")
    ELSE IF ValidateCallback(clients, clientID, redirectURI) # NoErr
    THEN writeError(StatusBadRequest, "redirect_uri not allowed")
    ELSE IF ProviderGet(providers, providerName).err # NoErr
    THEN writeError(StatusBadRequest, "unknown provider")
    ELSE IF ValidateProvider(clients, clientID, providerName) # NoErr
    THEN IF ValidateProvider(clients, clientID, providerName) = ErrProviderNotAllowed
         THEN writeError(StatusForbidden, "provider not allowed for this client")
         ELSE writeError(StatusBadRequest, "unknown client")
    ELSE LET stateToken == Generate(stateService, now, nonce,
                               [ZeroStatePayload EXCEPT !.ClientID = clientID,
                                                        !.Provider = providerName,
                                                        !.RedirectURI = redirectURI])
             authURL == AuthURL(ProviderGet(providers, providerName).provider, stateToken)
         IN IF authURL.err # NoErr
            THEN writeError(StatusInternalServerError, "failed to generate auth URL")
            ELSE Redirect(authURL.url, stateToken, EmptyCode)

----------------------------------------------------------------------------
(* handler: Callback, GET /callback/{provider} *)

\* Callback that fills the code's ClientID from the wrong field of the state
Callback_WrongField(providerName, query, up, nonce) ==
    IF query.state = EmptyToken
    THEN writeError(StatusBadRequest, "missing state parameter")
    ELSE LET v == Validate(stateService, now, query.state) IN
    IF v.err # NoErr
    THEN IF v.err = ErrExpiredState
         THEN writeError(StatusBadRequest, "state token expired")
         ELSE writeError(StatusBadRequest, "invalid state token")
    ELSE IF ProviderGet(providers, providerName).err # NoErr
    THEN writeError(StatusBadRequest, "unknown provider")
    ELSE LET result == ProviderExchange(ProviderGet(providers, providerName).provider,
                                       query, up) IN
    IF result.err # NoErr
    THEN IF result.err = ErrMissingProviderParams
         THEN [writeError(StatusBadRequest, "missing provider parameters")
                  EXCEPT !.invoked = TRUE, !.calls = result.calls]
         ELSE [writeError(StatusBadGateway, "provider exchange failed")
                  EXCEPT !.invoked = TRUE, !.calls = result.calls]
    ELSE LET code == Encode(codec, now, nonce,
                         [ZeroExchangePayload EXCEPT !.ClientID = v.payload.Provider,
                                                     !.User = result.user]) IN
    IF urlParse(v.payload.RedirectURI) # NoErr
    THEN [writeError(StatusInternalServerError, "invalid redirect URI")
             EXCEPT !.invoked = TRUE, !.calls = result.calls]
    ELSE [Redirect(v.payload.RedirectURI, EmptyToken, code)
             EXCEPT !.invoked = TRUE, !.calls = result.calls]

\* Callback that runs the provider exchange before it looks at the state
Callback_ExchangeFirst(providerName, query, up, nonce) ==
    IF ProviderGet(providers, providerName).err # NoErr
    THEN writeError(StatusBadRequest, "unknown provider")
    ELSE LET result == ProviderExchange(ProviderGet(providers, providerName).provider,
                                       query, up) IN
    IF result.err # NoErr
    THEN IF result.err = ErrMissingProviderParams
         THEN [writeError(StatusBadRequest, "missing provider parameters")
                  EXCEPT !.invoked = TRUE, !.calls = result.calls]
         ELSE [writeError(StatusBadGateway, "provider exchange failed")
                  EXCEPT !.invoked = TRUE, !.calls = result.calls]
    ELSE IF query.state = EmptyToken
    THEN [writeError(StatusBadRequest, "missing state parameter")
             EXCEPT !.invoked = TRUE, !.calls = result.calls]
    ELSE LET v == Validate(stateService, now, query.state) IN
    IF v.err # NoErr
    THEN IF v.err = ErrExpiredState
         THEN [writeError(StatusBadRequest, "state token expired")
                  EXCEPT !.invoked = TRUE, !.calls = result.calls]
         ELSE [writeError(StatusBadRequest, "invalid state token")
                  EXCEPT !.invoked = TRUE, !.calls = result.calls]
    ELSE LET code == Encode(codec, now, nonce,
                         [ZeroExchangePayload EXCEPT !.ClientID = v.payload.ClientID,
                                                     !.User = result.user]) IN
    IF urlParse(v.payload.RedirectURI) # NoErr
    THEN [writeError(StatusInternalServerError, "invalid redirect URI")
             EXCEPT !.invoked = TRUE, !.calls = result.calls]
    ELSE [Redirect(v.payload.RedirectURI, EmptyToken, code)
             EXCEPT !.invoked = TRUE, !.calls = result.calls]

\* Callback that does not tell missing parameters from other provider failures
Callback_AllFailuresBadGateway(providerName, query, up, nonce) ==
    IF query.state = EmptyToken
    THEN writeError(StatusBadRequest, "missing state parameter")
    ELSE LET v == Validate(stateService, now, query.state) IN
    IF v.err # NoErr
    THEN IF v.err = ErrExpiredState
         THEN writeError(StatusBadRequest, "state token expired")
         ELSE writeError(StatusBadRequest, "invalid state token")
    ELSE IF ProviderGet(providers, providerName).err # NoErr
    THEN writeError(StatusBadRequest, "unknown provider")
    ELSE LET result == ProviderExchange(ProviderGet(providers, providerName).provider,
                                       query, up) IN
    IF result.err # NoErr
    THEN [writeError(StatusBadGateway, "provider exchange failed")
             EXCEPT !.invoked = TRUE, !.calls = result.calls]
    ELSE LET code == Encode(codec, now, nonce,
                         [ZeroExchangePayload EXCEPT !.ClientID = v.payload.ClientID,
                                                     !.User = result.user]) IN
    IF urlParse(v.payload.RedirectURI) # NoErr
    THEN [writeError(StatusInternalServerError, "invalid redirect URI")
             EXCEPT !.invoked = TRUE, !.calls = result.calls]
    ELSE [Redirect(v.payload.RedirectURI, EmptyToken, code)
             EXCEPT !.invoked = TRUE, !.calls = result.calls]

\* Callback that tells a malformed token from one with a bad signature
Callback_TellsMalformed(providerName, query, up, nonce) ==
    IF query.state = EmptyToken
    THEN writeError(StatusBadRequest, "missing state parameter")
    ELSE LET v == Validate(stateService, now, query.state) IN
    IF v.err # NoErr
    THEN IF v.err = ErrExpiredState
         THEN writeError(StatusBadRequest, "state token expired")
         ELSE IF v.err = ErrMalformedState
         THEN writeError(StatusBadRequest, "malformed state token")
         ELSE writeError(StatusBadRequest, "invalid state token")
    ELSE IF ProviderGet(providers, providerName).err # NoErr
    THEN writeError(StatusBadRequest, "unknown provider")
    ELSE LET result == ProviderExchange(ProviderGet(providers, providerName).provider,
                                       query, up) IN
    IF result.err # NoErr
    THEN IF result.err = ErrMissingProviderParams
         THEN [writeError(StatusBadRequest, "missing provider parameters")
                  EXCEPT !.invoked = TRUE, !.calls = result.calls]
         ELSE [writeError(StatusBadGateway, "provider exchange failed")
                  EXCEPT !.invoked = TRUE, !.calls = result.calls]
    ELSE LET code == Encode(codec, now, nonce,
                         [ZeroExchangePayload EXCEPT !.ClientID = v.payload.ClientID,
                                                     !.User = result.user]) IN
    IF urlParse(v.payload.RedirectURI) # NoErr
    THEN [writeError(StatusInternalServerError, "invalid redirect URI")
             EXCEPT !.invoked = TRUE, !.calls = result.calls]
    ELSE [Redirect(v.payload.RedirectURI, EmptyToken, code)
             EXCEPT !.invoked = TRUE, !.calls = result.calls]

\* Callback that refuses a state token issued for another provider
Callback_ChecksProvider(providerName, query, up, nonce) ==
    IF query.state = EmptyToken
    THEN writeError(StatusBadRequest, "missing state parameter")
    ELSE LET v == Validate(stateService, now, query.state) IN
    IF v.err # NoErr
    THEN IF v.err = ErrExpiredState
         THEN writeError(StatusBadRequest, "state token expired")
         ELSE writeError(StatusBadRequest, "invalid state token")
    ELSE IF ProviderGet(providers, providerName).err # NoErr
    THEN writeError(StatusBadRequest, "unknown provider")
    ELSE IF v.payload.Provider # providerName
    THEN writeError(StatusBadRequest, "provider mismatch")
    ELSE LET result == ProviderExchange(ProviderGet(providers, providerName).provider,
                                       query, up) IN
    IF result.err # NoErr
    THEN IF result.err = ErrMissingProviderParams
         THEN [writeError(StatusBadRequest, "missing provider parameters")
                  EXCEPT !.invoked = TRUE, !.calls = result.calls]
         ELSE [writeError(StatusBadGateway, "provider exchange failed")
                  EXCEPT !.invoked = TRUE, !.calls = result.calls]
    ELSE LET code == Encode(codec, now, nonce,
                         [ZeroExchangePayload EXCEPT !.ClientID = v.payload.ClientID,
                                                     !.User = result.user]) IN
    IF urlParse(v.payload.RedirectURI) # NoErr
    THEN [writeError(StatusInternalServerError, "invalid redirect URI")
             EXCEPT !.invoked = TRUE, !.calls = result.calls]
    ELSE [Redirect(v.payload.RedirectURI, EmptyToken, code)
             EXCEPT !.invoked = TRUE, !.calls = result.calls]

Callback(providerName, query, up, nonce) ==
    IF query.state = EmptyToken
    THEN writeError(StatusBadRequest, "missing state parameter")
    ELSE LET v == Validate(stateService, now, query.state) IN
    IF v.err # NoErr
    THEN IF v.err = ErrExpiredState
         THEN writeError(StatusBadRequest, "state token expired")
         ELSE writeError(StatusBadRequest, "invalid state token")
    ELSE IF ProviderGet(providers, providerName).err # NoErr
    THEN writeError(StatusBadRequest, "unknown provider")
    ELSE LET result == ProviderExchange(ProviderGet(providers, providerName).provider,
                                       query, up) IN
    IF result.err # NoErr
    THEN IF result.err = ErrMissingProviderParams
         THEN [writeError(StatusBadRequest, "missing provider parameters")
                  EXCEPT !.invoked = TRUE, !.calls = result.calls]
         ELSE [writeError(StatusBadGateway, "provider exchange failed")
                  EXCEPT !.invoked = TRUE, !.calls = result.calls]
    ELSE LET code == Encode(codec, now, nonce,
                         [ZeroExchangePayload EXCEPT !.ClientID = v.payload.ClientID,
                                                     !.User = result.user]) IN
    IF urlParse(v.payload.RedirectURI) # NoErr
    THEN [writeError(StatusInternalServerError, "invalid redirect URI")
             EXCEPT !.invoked = TRUE, !.calls = result.calls]
    ELSE [Redirect(v.payload.RedirectURI, EmptyToken, code)
             EXCEPT !.invoked = TRUE, !.calls = result.calls]

----------------------------------------------------------------------------
(* handler: Exchange, GET /exchange *)

\* A header value is its words; "Bearer " is <<"Bearer", "">>.
TrimPrefixBearer(authHeader) ==
    IF Len(authHeader) >= 2 /\ authHeader[1] = "Bearer"
    THEN IF Tail(authHeader) = <<"">> THEN <<>> ELSE Tail(authHeader)
    ELSE authHeader

\* the header text as the string the registry compares against its keys
AsString(words) == IF Len(words) = 1 THEN words[1] ELSE "<not-a-key>"

\* Exchange without the comparison of the key's client with the code's client
Exchange_NoClientCheck(code, authHeader) ==
    IF code = EmptyCode
    THEN writeError(StatusBadRequest, "missing code parameter")
    ELSE LET apiKey == TrimPrefixBearer(authHeader) IN
    IF apiKey = <<>> \/ apiKey = authHeader
    THEN writeError(StatusUnauthorized, "missing or invalid Authorization header")
    ELSE LET d == Decode(codec, now, code) IN
    IF d.err # NoErr
    THEN IF d.err = ErrExpiredExchangeCode
         THEN writeError(StatusBadRequest, "exchange code expired")
         ELSE writeError(StatusBadRequest, "invalid exchange code")
    ELSE LET g == GetByAPIKey(clients, AsString(apiKey)) IN
    IF g.err # NoErr
    THEN writeError(StatusUnauthorized, "invalid API key")
    ELSE writeJSON(StatusOK, [User |-> d.payload.User])

\* Exchange that authenticates the API key before it decodes the code
Exchange_KeyFirst(code, authHeader) ==
    IF code = EmptyCode
    THEN writeError(StatusBadRequest, "missing code parameter")
    ELSE LET apiKey == TrimPrefixBearer(authHeader) IN
    IF apiKey = <<>> \/ apiKey = authHeader
    THEN writeError(StatusUnauthorized, "missing or invalid Authorization header")
    ELSE LET g == GetByAPIKey(clients, AsString(apiKey)) IN
    IF g.err # NoErr
    THEN writeError(StatusUnauthorized, "invalid API key")
    ELSE LET d == Decode(codec, now, code) IN
    IF d.err # NoErr
    THEN IF d.err = ErrExpiredExchangeCode
         THEN writeError(StatusBadRequest, "exchange code expired")
         ELSE writeError(StatusBadRequest, "invalid exchange code")
    ELSE IF g.client.ID # d.payload.ClientID
    THEN writeError(StatusForbidden,
                    "API key does not match the client that initiated the auth flow")
    ELSE writeJSON(StatusOK, [User |-> d.payload.User])

Exchange(code, authHeader) ==
    IF code = EmptyCode
    THEN writeError(StatusBadRequest, "missing code parameter")
    ELSE LET apiKey == TrimPrefixBearer(authHeader) IN
    IF apiKey = <<>> \/ apiKey = authHeader
    THEN writeError(StatusUnauthorized, "missing or invalid Authorization header")
    ELSE LET d == Decode(codec, now, code) IN
    IF d.err # NoErr
    THEN IF d.err = ErrExpiredExchangeCode
         THEN writeError(StatusBadRequest, "exchange code expired")
         ELSE writeError(StatusBadRequest, "invalid exchange code")
    ELSE LET g == GetByAPIKey(clients, AsString(apiKey)) IN
    IF g.err # NoErr
    THEN writeError(StatusUnauthorized, "invalid API key")
    ELSE IF g.client.ID # d.payload.ClientID
    THEN writeError(StatusForbidden,
                    "API key does not match the client that initiated the auth flow")
    ELSE writeJSON(StatusOK, [User |-> d.payload.User])

----------------------------------------------------------------------------
(* Configurations and request inputs *)

WebCallback == "https://example.com/auth/callback"
AdminCallback == "https://admin.example.com/callback"
EvilCallback == "https://evil.com/callback"
\* an allowed callback with one more character
NearCallback == "https://example.com/auth/callback/"

WebKey == "web-api-key-secret"
AdminKey == "admin-api-key-secret"
WrongKey == "wrong-api-key"

Website(key) ==
    [ID |-> "website", Name |-> "Website", APIKey |-> key,
     AllowedCallbacks |-> <<WebCallback>>, AllowedProviders |-> <<"discord", "steam">>]

Admin(key) ==
    [ID |-> "admin", Name |-> "Admin", APIKey |-> key,
     AllowedCallbacks |-> <<AdminCallback>>, AllowedProviders |-> <<"discord">>]

\* client lists as the loader builds them (sorted by id); the loader does not
\* require API keys to differ
ClientLists ==
    { <<Admin(AdminKey), Website(WebKey)>>,
      <<Admin(WebKey), Website(WebKey)>> }

\* client lists in which two records share an id
DuplicateIDLists ==
    { <<Website(WebKey), Website(AdminKey)>>,
      <<Admin(AdminKey), Website(WebKey), Admin(WebKey)>> }

\* the lists NewRegistry is called with; the process exits when it fails
RegistryInputs == ClientLists \cup DuplicateIDLists

StateSigningKey == "state-signing-key"
ExchangeEncryptionKey == "01234567890123456789012345678901"
\* a second 32-byte key
OtherKey == "different-key-567890123456789012"

ClientIDInputs == {"", "website", "admin", "unknown"}
RedirectInputs == {"", WebCallback, AdminCallback, EvilCallback, NearCallback}
ProviderInputs == {"discord", "steam", "github"}

\* hex of 16 random bytes / 12 random bytes
Nonces == {"0f1e2d3c", "a9b8c7d6"}
Nonce0 == "0f1e2d3c"

DiscordUserFull ==
    [id |-> "987654321", username |-> "tactical", global_name |-> "Tactical Commander",
     avatar |-> "abc", email |-> "tactical@example.com"]

DiscordUserSparse ==
    [id |-> "123", username |-> "testuser", global_name |-> "", avatar |-> "", email |-> ""]

SteamPlayer ==
    [steamid |-> "76561198000000001", personaname |-> "operator",
     avatarfull |-> "https://avatars.steamstatic.com/x_full.jpg"]

UpstreamOK(du) ==
    [tokenStatus |-> StatusOK, tokenJSON |-> TRUE, accessToken |-> "access-token",
     userStatus |-> StatusOK, userJSON |-> TRUE, du |-> du,
     isValid |-> TRUE, summaryStatus |-> StatusOK, summaryJSON |-> TRUE,
     players |-> <<SteamPlayer>>]

\* the query parameters the provider appends to the callback (discord: code;
\* steam: the openid.* assertion)
GoodParams ==
    [k \in {"code", "openid.mode", "openid.claimed_id", "openid.sig"} |->
        CASE k = "code" -> "auth-code"
          [] k = "openid.mode" -> "id_res"
          [] k = "openid.claimed_id" -> SteamIdentity
          [] k = "openid.sig" -> "c2lnbmF0dXJl"]

\* the parameters present and empty
EmptyParams == [k \in {"code", "openid.claimed_id"} |-> ""]

\* what the browser brings back from the provider, and how the provider's
\* endpoints then answer
Runs ==
    { [params |-> GoodParams, up |-> UpstreamOK(DiscordUserFull)],
      [params |-> GoodParams, up |-> UpstreamOK(DiscordUserSparse)],
      [params |-> EmptyParams, up |-> UpstreamOK(DiscordUserFull)],
      [params |-> GoodParams,
       up |-> [UpstreamOK(DiscordUserFull) EXCEPT !.tokenStatus = 401, !.isValid = FALSE]],
      [params |-> GoodParams,
       up |-> [UpstreamOK(DiscordUserFull) EXCEPT !.userStatus = 500, !.summaryStatus = 500]] }

Run0 == [params |-> GoodParams, up |-> UpstreamOK(DiscordUserFull)]

\* the signature segment with a bit flipped
TamperSig(t) == [t EXCEPT !.sig = [key |-> "", data |-> t.enc]]

\* the payload segment re-encoded after a change, original signature kept
TamperPayload(t) ==
    LET p == UnmarshalState(t.enc.obj) IN
    { Dotted(Segment(MarshalState([p EXCEPT !.ClientID =
                 IF p.ClientID = "website" THEN "admin" ELSE "website"])), t.sig),
      Dotted(Segment(MarshalState([p EXCEPT !.ExpiresAt = p.ExpiresAt + 3600])), t.sig) }

\* a token made by a party that holds some other key
ForgedToken ==
    Generate([key |-> OtherKey, expiry |-> 86400], 0, Nonce0,
             [ZeroStatePayload EXCEPT !.ClientID = "website", !.Provider = "discord",
                                      !.RedirectURI = EvilCallback])

Held(t) == IF t = EmptyToken THEN {} ELSE {t}

StateInputs ==
    {EmptyToken, NoDotToken, ForgedToken}
    \cup Held(carriedState)
    \cup {TamperSig(t) : t \in Held(carriedState)}
    \cup UNION {TamperPayload(t) : t \in Held(carriedState)}

\* one bit of the code flipped, in a character that carries data
TamperCode(c) == [c EXCEPT !.intact = FALSE]

\* one bit of the last character flipped, among its bits that carry no data:
\* with four such bits every last character the encoder can write has a
\* one-bit neighbour in the alphabet that differs from it in those bits only
\* (A-C, Q-S, g-o, w-7)
FlipTrailingBit(c) ==
    IF c.trailing = 4 THEN {[c EXCEPT !.trailingSet = TRUE]} ELSE {}

ForgedCode ==
    Encode([key |-> OtherKey, expiry |-> 86400], 0, Nonce0,
           [ZeroExchangePayload EXCEPT !.ClientID = "website"])

HeldCode(c) == IF c = EmptyCode THEN {} ELSE {c}

CodeInputs ==
    {EmptyCode, NotBase64Code, ShortCode, ForgedCode}
    \cup HeldCode(carriedCode)
    \cup {TamperCode(c) : c \in HeldCode(carriedCode)}
    \cup UNION {FlipTrailingBit(c) : c \in HeldCode(carriedCode)}

AuthHeaderInputs ==
    { <<>>, <<WebKey>>, <<"Bearer", "">>, <<"Bearer", WebKey>>,
      <<"Bearer", AdminKey>>, <<"Bearer", WrongKey>> }

TickSteps == {1, 30, 300}

----------------------------------------------------------------------------
(* main: construction *)

ExchangeKeyLen == 32

\* main builds the codec only from a key of exactly 32 bytes and exits otherwise
mainCodec(encKey) ==
    IF Len(encKey) # ExchangeKeyLen
    THEN [err |-> "exchange_encryption_key must be exactly 32 bytes", codec |-> ZeroCodec]
    ELSE IF NewCodec(encKey).err # NoErr
    THEN [err |-> "failed to create exchange codec", codec |-> ZeroCodec]
    ELSE NewCodec(encKey)

----------------------------------------------------------------------------
(* The state machine *)

ZeroReq ==
    [client_id |-> "", redirect_uri |-> "", provider |-> "",
     state |-> EmptyToken, run |-> Run0, code |-> EmptyCode, authz |-> <<>>]

Idle == [ep |-> "idle", req |-> ZeroReq, resp |-> writeError(0, "")]

Init ==
    /\ clients \in { [byID |-> NewRegistry(l).byID, byAPIKey |-> NewRegistry(l).byAPIKey] :
                       l \in {x \in RegistryInputs : NewRegistry(x).err = NoErr} }
    /\ providers = Register(Register(EmptyMap, [name |-> "discord"]).reg,
                            [name |-> "steam"]).reg
    /\ stateService = NewService(StateSigningKey)
    /\ codec = mainCodec(ExchangeEncryptionKey).codec
    /\ now = 0
    /\ elapsed = {}
    /\ carriedState = EmptyToken
    /\ carriedCode = EmptyCode
    /\ last = Idle

Frame == UNCHANGED <<clients, providers, stateService, codec, now, elapsed,
                     carriedState, carriedCode>>

\* GET /auth/{provider}?client_id=..&redirect_uri=..
AuthorizeRequest ==
    /\ last.ep = "idle"
    /\ \E clientID \in ClientIDInputs, redirectURI \in RedirectInputs,
          providerName \in ProviderInputs :
         \E nonce \in IF Authorize(clientID, redirectURI, providerName, Nonce0).status
                           = StatusFound THEN Nonces ELSE {Nonce0} :
            last' = [ep |-> "auth",
                     req |-> [ZeroReq EXCEPT !.client_id = clientID,
                                             !.redirect_uri = redirectURI,
                                             !.provider = providerName],
                     resp |-> Authorize(clientID, redirectURI, providerName, nonce)]
    /\ Frame

\* GET /callback/{provider}?state=..&<provider parameters>
CallbackRequest ==
    /\ last.ep = "idle"
    /\ \E providerName \in ProviderInputs, st \in StateInputs :
         LET reaches == Validate(stateService, now, st).err = NoErr
                        /\ ProviderGet(providers, providerName).err = NoErr
         IN \E run \in IF reaches THEN Runs ELSE {Run0} :
            \E nonce \in IF Callback(providerName, run.params @@ [state |-> st],
                                         run.up, Nonce0).status
                              = StatusFound THEN Nonces ELSE {Nonce0} :
               last' = [ep |-> "callback",
                        req |-> [ZeroReq EXCEPT !.provider = providerName,
                                                !.state = st, !.run = run],
                        resp |-> Callback(providerName, run.params @@ [state |-> st],
                                          run.up, nonce)]
    /\ Frame

\* GET /exchange?code=..   Authorization: <header>
ExchangeRequest ==
    /\ last.ep = "idle"
    /\ \E code \in CodeInputs, authHeader \in AuthHeaderInputs :
         last' = [ep |-> "exchange",
                  req |-> [ZeroReq EXCEPT !.code = code, !.authz = authHeader],
                  resp |-> Exchange(code, authHeader)]
    /\ Frame

\* the response reaches its recipient, who keeps the token or code it carries
Deliver ==
    /\ last.ep # "idle"
    /\ carriedState' = IF last.ep = "auth" /\ last.resp.status = StatusFound
                     THEN last.resp.location.state ELSE carriedState
    /\ carriedCode' = IF last.ep = "callback" /\ last.resp.status = StatusFound
                       THEN last.resp.location.code ELSE carriedCode
    /\ last' = Idle
    /\ UNCHANGED <<clients, providers, stateService, codec, now, elapsed>>

\* time passes
Tick ==
    /\ last.ep = "idle"
    /\ Cardinality(elapsed) < MaxTicks
    /\ \E d \in TickSteps \ elapsed :
         /\ now' = now + d
         /\ elapsed' = elapsed \cup {d}
    /\ UNCHANGED <<clients, providers, stateService, codec, carriedState, carriedCode, last>>

Next == AuthorizeRequest \/ CallbackRequest \/ ExchangeRequest \/ Deliver \/ Tick

Spec == Init /\ [][Next]_vars

----------------------------------------------------------------------------
(* Construction of the provider registry: a sequence of Register calls *)

\* providers as main builds them, and others bearing an already used name
ProviderValues ==
    { [name |-> "discord", callbackURL |-> "https://auth.example.com/callback/discord"],
      [name |-> "discord", callbackURL |-> "https://other.example.com/callback/discord"],
      [name |-> "steam", callbackURL |-> "https://auth.example.com/callback/steam"],
      [name |-> "steam", callbackURL |-> "https://other.example.com/callback/steam"],
      [name |-> "github", callbackURL |-> "https://auth.example.com/callback/github"] }

\* auth.NewRegistry() has run and no provider is registered yet; `last` keeps
\* the Register calls made so far and the error each one returned
InitRegistry ==
    /\ clients = [byID |-> EmptyMap, byAPIKey |-> EmptyMap]
    /\ providers = EmptyMap
    /\ stateService = NewService(StateSigningKey)
    /\ codec = mainCodec(ExchangeEncryptionKey).codec
    /\ now = 0
    /\ elapsed = {}
    /\ carriedState = EmptyToken
    /\ carriedCode = EmptyCode
    /\ last = [ep |-> "register", calls |-> <<>>, errs |-> <<>>]

\* providers.Register(p)
RegisterCall ==
    /\ Len(last.calls) < MaxRegisterCalls
    /\ \E p \in ProviderValues :
         /\ providers' = Register(providers, p).reg
         /\ last' = [last EXCEPT !.calls = Append(@, p),
                                 !.errs = Append(@, Register(providers, p).err)]
    /\ UNCHANGED <<clients, stateService, codec, now, elapsed, carriedState, carriedCode>>

NextRegistry == RegisterCall

RegistrySpec == InitRegistry /\ [][NextRegistry]_vars

----------------------------------------------------------------------------
(* One /callback request whose state token verified: the provider exchange,  *)
(* one outbound call at a time, and the cancellation of the inbound request *)

\* how the provider's endpoints answer: all well, and each single failure
Upstreams ==
    LET ok == UpstreamOK(DiscordUserFull) IN
    { ok, UpstreamOK(DiscordUserSparse),
      [ok EXCEPT !.tokenStatus = StatusBadRequest],
      [ok EXCEPT !.tokenJSON = FALSE],
      [ok EXCEPT !.accessToken = ""],
      [ok EXCEPT !.userStatus = StatusUnauthorized],
      [ok EXCEPT !.userJSON = FALSE],
      [ok EXCEPT !.isValid = FALSE],
      [ok EXCEPT !.summaryStatus = StatusInternalServerError],
      [ok EXCEPT !.summaryJSON = FALSE],
      [ok EXCEPT !.players = <<>>] }

\* the provider parameters of the callback: complete, empty, absent, the
\* claimed id alone, and complete with each claimed id
ParamInputs ==
    {GoodParams, EmptyParams, EmptyMap, [k \in {"openid.claimed_id"} |-> SteamIdentity]}
    \cup {[GoodParams EXCEPT !["openid.claimed_id"] = c] : c \in ClaimedIDInputs}

\* the handler has verified the state token in carriedState and found the
\* provider; `last` is the request: pc is the handler's position, out the
\* outbound requests sent so far, ctxDone whether r.Context() is cancelled
InitProvider ==
    /\ clients = [byID |-> NewRegistry(<<Admin(AdminKey), Website(WebKey)>>).byID,
                  byAPIKey |-> NewRegistry(<<Admin(AdminKey), Website(WebKey)>>).byAPIKey]
    /\ providers = Register(Register(EmptyMap, [name |-> "discord"]).reg,
                            [name |-> "steam"]).reg
    /\ stateService = NewService(StateSigningKey)
    /\ codec = mainCodec(ExchangeEncryptionKey).codec
    /\ now = 0
    /\ elapsed = {}
    /\ carriedCode = EmptyCode
    /\ \E p \in DOMAIN providers, params \in ParamInputs, up \in Upstreams :
         /\ carriedState = Generate(stateService, now, Nonce0,
                              [ZeroStatePayload EXCEPT !.ClientID = "website",
                                                       !.Provider = p,
                                                       !.RedirectURI = WebCallback])
         /\ last = [ep |-> "provider", provider |-> p, params |-> params, up |-> up,
                    pc |-> "exchange", out |-> <<>>, ctxDone |-> FALSE,
                    cancelledAt |-> "", err |-> NoErr, user |-> ZeroUser,
                    resp |-> writeError(0, "")]

ProviderFrame == UNCHANGED <<clients, providers, stateService, codec, now, elapsed,
                             carriedState, carriedCode>>

\* the query parameters the handler collects and passes to Exchange
CollectedParams == last.params @@ [state |-> carriedState]

\* Provider.Exchange up to its first outbound request
ExchangeEnter ==
    /\ last.pc = "exchange"
    /\ last' =
         IF last.provider = "discord"
         THEN IF Missing(CollectedParams, "code")
              THEN [last EXCEPT !.pc = "respond", !.err = ErrMissingProviderParams]
              ELSE [last EXCEPT !.pc = "token",
                                !.out = <<[to |-> "discord-token",
                                           form |-> [code |-> CollectedParams["code"]]]>>]
         ELSE IF Missing(CollectedParams, "openid.claimed_id")
              THEN [last EXCEPT !.pc = "respond", !.err = ErrMissingProviderParams]
              ELSE [last EXCEPT !.pc = "check",
                                !.out = <<[to |-> "steam-check",
                                           form |-> verifyParams(CollectedParams)]>>]
    /\ ProviderFrame

\* the token request returns; on success the user request goes out
TokenReply ==
    /\ last.pc = "token"
    /\ LET r == exchangeCode(last.ctxDone, last.up) IN
       last' = IF r.err # NoErr
               THEN [last EXCEPT !.pc = "respond", !.err = r.err]
               ELSE [last EXCEPT !.pc = "user",
                                 !.out = Append(@, [to |-> "discord-user",
                                                    form |-> [bearer |-> r.token]])]
    /\ ProviderFrame

\* the user request returns
UserReply ==
    /\ last.pc = "user"
    /\ LET r == fetchUser(last.ctxDone, last.up) IN
       last' = [last EXCEPT !.pc = "respond", !.err = r.err, !.user = r.user]
    /\ ProviderFrame

\* the check_authentication request returns; on success the SteamID is
\* extracted and the player-summary request goes out
CheckReply ==
    /\ last.pc = "check"
    /\ LET e == validateAssertion(last.ctxDone, last.up)
           steamID == extractSteamID(CollectedParams["openid.claimed_id"])
       IN last' = IF e # NoErr
                  THEN [last EXCEPT !.pc = "respond", !.err = e]
                  ELSE IF steamID = ""
                  THEN [last EXCEPT !.pc = "respond", !.err = ErrProviderExchange]
                  ELSE [last EXCEPT !.pc = "summary",
                                    !.out = Append(@, [to |-> "steam-summary",
                                                       form |-> [steamids |-> steamID]])]
    /\ ProviderFrame

\* the player-summary request returns
SummaryReply ==
    /\ last.pc = "summary"
    /\ LET r == fetchPlayerSummary(last.ctxDone, last.up) IN
       last' = [last EXCEPT !.pc = "respond", !.err = r.err, !.user = r.user]
    /\ ProviderFrame

\* the handler after Exchange returned: the error response, or the code and
\* the redirect
Respond ==
    /\ last.pc = "respond"
    /\ LET v == Validate(stateService, now, carriedState)
           names == [i \in DOMAIN last.out |-> last.out[i].to]
           code == Encode(codec, now, Nonce0,
                          [ZeroExchangePayload EXCEPT !.ClientID = v.payload.ClientID,
                                                      !.User = last.user])
           resp == IF last.err = ErrMissingProviderParams
                   THEN writeError(StatusBadRequest, "missing provider parameters")
                   ELSE IF last.err # NoErr
                   THEN writeError(StatusBadGateway, "provider exchange failed")
                   ELSE IF urlParse(v.payload.RedirectURI) # NoErr
                   THEN writeError(StatusInternalServerError, "invalid redirect URI")
                   ELSE Redirect(v.payload.RedirectURI, EmptyToken, code)
       IN last' = [last EXCEPT !.pc = "done",
                               !.resp = [resp EXCEPT !.invoked = TRUE, !.calls = names]]
    /\ ProviderFrame

\* the browser drops the inbound connection: r.Context() is cancelled
CancelRequest ==
    /\ last.pc # "done"
    /\ ~last.ctxDone
    /\ last' = [last EXCEPT !.ctxDone = TRUE, !.cancelledAt = last.pc]
    /\ ProviderFrame

NextProvider ==
    \/ ExchangeEnter \/ TokenReply \/ UserReply \/ CheckReply \/ SummaryReply
    \/ Respond \/ CancelRequest

ProviderSpec == InitProvider /\ [][NextProvider]_vars

\* once the context is cancelled every outbound request returns at once, and
\* the handler's goroutine keeps running
ProviderFairSpec == ProviderSpec /\ WF_vars(NextProvider /\ last.ctxDone)

----------------------------------------------------------------------------
(* main and server: serving, the termination signal and graceful shutdown *)

\* context.WithTimeout(context.Background(), 10*time.Second), in seconds
ShutdownTimeout == 10

\* main has built the server and srv.Start() is serving; `last` is the
\* process: phase, the requests accepted, in flight, finished and aborted,
\* those in flight when Shutdown was called, the seconds since then, and the
\* exit status
InitServer ==
    /\ clients = [byID |-> NewRegistry(<<Admin(AdminKey), Website(WebKey)>>).byID,
                  byAPIKey |-> NewRegistry(<<Admin(AdminKey), Website(WebKey)>>).byAPIKey]
    /\ providers = Register(Register(EmptyMap, [name |-> "discord"]).reg,
                            [name |-> "steam"]).reg
    /\ stateService = NewService(StateSigningKey)
    /\ codec = mainCodec(ExchangeEncryptionKey).codec
    /\ now = 0
    /\ elapsed = {}
    /\ carriedState = EmptyToken
    /\ carriedCode = EmptyCode
    /\ last = [ep |-> "server", phase |-> "serving", accepted |-> 0, inflight |-> 0,
               finished |-> 0, aborted |-> 0, atShutdown |-> 0, since |-> 0,
               exit |-> -1]

ServerFrame == UNCHANGED <<clients, providers, stateService, codec, now, elapsed,
                           carriedState, carriedCode>>

\* AcceptRequest of a server whose listener stays open during shutdown
AcceptRequest_WhileDraining ==
    /\ last.phase \in {"serving", "draining"}
    /\ last.accepted < MaxRequests
    /\ last' = [last EXCEPT !.accepted = @ + 1, !.inflight = @ + 1]
    /\ ServerFrame

\* httpServer.Serve accepts a request and starts its handler
AcceptRequest ==
    /\ last.phase = "serving"
    /\ last.accepted < MaxRequests
    /\ last' = [last EXCEPT !.accepted = @ + 1, !.inflight = @ + 1]
    /\ ServerFrame

\* a handler returns and its response is written
FinishRequest ==
    /\ last.phase \in {"serving", "draining"}
    /\ last.inflight > 0
    /\ last' = [last EXCEPT !.inflight = @ - 1, !.finished = @ + 1]
    /\ ServerFrame

\* SIGINT or SIGTERM: main receives from quit and calls srv.Shutdown(ctx),
\* which closes the listener
SignalShutdown ==
    /\ last.phase = "serving"
    /\ last' = [last EXCEPT !.phase = "draining", !.atShutdown = last.inflight]
    /\ ServerFrame

\* a second passes while Shutdown waits
DrainSecond ==
    /\ last.phase = "draining"
    /\ last.since < ShutdownTimeout
    /\ last' = [last EXCEPT !.since = @ + 1]
    /\ ServerFrame

\* Shutdown finds no active connection and returns nil; main returns
ShutdownReturns ==
    /\ last.phase = "draining"
    /\ last.inflight = 0
    /\ last' = [last EXCEPT !.phase = "stopped", !.exit = 0]
    /\ ServerFrame

\* ctx expires with requests still in flight: Shutdown returns ctx.Err() and
\* log.Fatalf ends the process
ShutdownDeadline ==
    /\ last.phase = "draining"
    /\ last.since >= ShutdownTimeout
    /\ last.inflight > 0
    /\ last' = [last EXCEPT !.phase = "fatal", !.exit = 1,
                            !.aborted = last.inflight, !.inflight = 0]
    /\ ServerFrame

NextServer ==
    \/ AcceptRequest \/ FinishRequest \/ SignalShutdown \/ DrainSecond
    \/ ShutdownReturns \/ ShutdownDeadline

ServerSpec == InitServer /\ [][NextServer]_vars

\* time passes and the goroutine running Shutdown is scheduled; nothing is
\* assumed about handlers returning
ServerFairSpec ==
    ServerSpec /\ WF_vars(DrainSecond) /\ WF_vars(ShutdownReturns)
               /\ WF_vars(ShutdownDeadline)

----------------------------------------------------------------------------
(* handler: Providers and Health; requests handled concurrently *)

\* sort.Strings on the provider names of the model
SortStrings(names) == SelectSeq(<<"discord", "github", "steam">>, LAMBDA n : n \in names)

\* GET /providers
Providers ==
    [status |-> StatusOK, error |-> "", location |-> NoLocation,
     body |-> [names |-> SortStrings(Names(providers))], invoked |-> FALSE,
     calls |-> NoCalls]

\* GET /health
Health ==
    [status |-> StatusOK, error |-> "", location |-> NoLocation,
     body |-> [status |-> "ok"], invoked |-> FALSE, calls |-> NoCalls]

\* the handler the mux routes a request to
Handle(req, nonce) ==
    CASE req.ep = "auth" ->
           Authorize(req.client_id, req.redirect_uri, req.provider, nonce)
      [] req.ep = "callback" ->
           Callback(req.provider, req.run.params @@ [state |-> req.state], req.run.up, nonce)
      [] req.ep = "exchange" -> Exchange(req.code, req.authz)
      [] req.ep = "providers" -> Providers
      [] req.ep = "health" -> Health

\* a state token and an exchange code issued to client website at startup time
IssuedState ==
    Generate(NewService(StateSigningKey), 0, Nonce0,
             [ZeroStatePayload EXCEPT !.ClientID = "website", !.Provider = "discord",
                                      !.RedirectURI = WebCallback])

IssuedCode ==
    Encode(mainCodec(ExchangeEncryptionKey).codec, 0, Nonce0,
           [ZeroExchangePayload EXCEPT !.ClientID = "website",
                                       !.User = fetchUser(FALSE, UpstreamOK(DiscordUserFull)).user])

\* the requests that arrive while others are in flight
ConcurrentRequests ==
    { [ZeroReq EXCEPT !.client_id = "website", !.redirect_uri = WebCallback,
                      !.provider = "discord"] @@ [ep |-> "auth"],
      [ZeroReq EXCEPT !.client_id = "admin", !.redirect_uri = AdminCallback,
                      !.provider = "steam"] @@ [ep |-> "auth"],
      [ZeroReq EXCEPT !.provider = "discord", !.state = IssuedState] @@ [ep |-> "callback"],
      [ZeroReq EXCEPT !.code = IssuedCode, !.authz = <<"Bearer", WebKey>>]
          @@ [ep |-> "exchange"],
      ZeroReq @@ [ep |-> "providers"],
      ZeroReq @@ [ep |-> "health"] }

FreeSlot == [pc |-> "free", req |-> ZeroReq @@ [ep |-> ""], nonce |-> Nonce0, at |-> 0,
             resp |-> writeError(0, "")]

\* the server is serving and no request is in flight; `last` holds one slot
\* for each request that can be in flight at once
InitConcurrent ==
    /\ clients = [byID |-> NewRegistry(<<Admin(AdminKey), Website(WebKey)>>).byID,
                  byAPIKey |-> NewRegistry(<<Admin(AdminKey), Website(WebKey)>>).byAPIKey]
    /\ providers = Register(Register(EmptyMap, [name |-> "discord"]).reg,
                            [name |-> "steam"]).reg
    /\ stateService = NewService(StateSigningKey)
    /\ codec = mainCodec(ExchangeEncryptionKey).codec
    /\ now = 0
    /\ elapsed = {}
    /\ carriedState = IssuedState
    /\ carriedCode = IssuedCode
    /\ last = [ep |-> "concurrent", slots |-> [i \in 1..MaxInFlight |-> FreeSlot]]

\* the server accepts a request and starts a goroutine for it
StartRequest(i) ==
    /\ last.slots[i].pc = "free"
    /\ \E req \in ConcurrentRequests :
         last' = [last EXCEPT !.slots[i] = [FreeSlot EXCEPT !.pc = "running", !.req = req]]
    /\ UNCHANGED <<clients, providers, stateService, codec, now, elapsed,
                   carriedState, carriedCode>>

\* a handler that keeps the codes it has redeemed inside the codec
HandleRequest_SingleUseCodes(i) ==
    /\ last.slots[i].pc = "running"
    /\ \E nonce \in IF Handle(last.slots[i].req, Nonce0).status = StatusFound
                     THEN Nonces ELSE {Nonce0} :
         last' = [last EXCEPT !.slots[i] =
                     [@ EXCEPT !.pc = "done", !.nonce = nonce, !.at = now,
                               !.resp = Handle(last.slots[i].req, nonce)]]
    /\ codec' = IF last.slots[i].req.ep = "exchange"
                THEN codec @@ [used |-> {last.slots[i].req.code}]
                ELSE codec
    /\ UNCHANGED <<clients, providers, stateService, now, elapsed,
                   carriedState, carriedCode>>

\* the goroutine runs the handler: it reads the registries, the services and
\* the clock, and writes none of them
HandleRequest(i) ==
    /\ last.slots[i].pc = "running"
    /\ \E nonce \in IF Handle(last.slots[i].req, Nonce0).status = StatusFound
                     THEN Nonces ELSE {Nonce0} :
         last' = [last EXCEPT !.slots[i] =
                     [@ EXCEPT !.pc = "done", !.nonce = nonce, !.at = now,
                               !.resp = Handle(last.slots[i].req, nonce)]]
    /\ UNCHANGED <<clients, providers, stateService, codec, now, elapsed,
                   carriedState, carriedCode>>

\* the response has been written and the goroutine ends
CompleteRequest(i) ==
    /\ last.slots[i].pc = "done"
    /\ last' = [last EXCEPT !.slots[i] = FreeSlot]
    /\ UNCHANGED <<clients, providers, stateService, codec, now, elapsed,
                   carriedState, carriedCode>>

\* time passes while requests are in flight
ConcurrentTick ==
    /\ Cardinality(elapsed) < MaxTicks
    /\ \E d \in TickSteps \ elapsed :
         /\ now' = now + d
         /\ elapsed' = elapsed \cup {d}
    /\ UNCHANGED <<clients, providers, stateService, codec, carriedState, carriedCode, last>>

NextConcurrent ==
    \/ \E i \in 1..MaxInFlight : StartRequest(i)
    \/ \E i \in 1..MaxInFlight : HandleRequest(i)
    \/ \E i \in 1..MaxInFlight : CompleteRequest(i)
    \/ ConcurrentTick

ConcurrentSpec == InitConcurrent /\ [][NextConcurrent]_vars

----------------------------------------------------------------------------
(* sdk: the Go and TypeScript clients and their callback handlers *)

UpperLetters == "ABCDEFGHIJKLMNOPQRSTUVWXYZ"
LowerLetters == "abcdefghijklmnopqrstuvwxyz"

\* strings.ToLower on one character
ToLower(c) ==
    IF \E i \in 1..Len(UpperLetters) : SubSeq(UpperLetters, i, i) = c
    THEN LET i == CHOOSE k \in 1..Len(UpperLetters) : SubSeq(UpperLetters, k, k) = c
         IN SubSeq(LowerLetters, i, i)
    ELSE c

\* strings.Contains(strings.ToLower(s), sub)
ContainsLower(s, sub) ==
    \E i \in 1..(Len(s) - Len(sub) + 1) :
       \A j \in 1..Len(sub) : ToLower(SubSeq(s, i + j - 1, i + j - 1)) = SubSeq(sub, j, j)

\* net/http.StatusText
StatusText(status) ==
    CASE status = StatusBadRequest -> "Bad Request"
      [] status = StatusUnauthorized -> "Unauthorized"
      [] status = StatusForbidden -> "Forbidden"
      [] status = StatusInternalServerError -> "Internal Server Error"
      [] status = StatusBadGateway -> "Bad Gateway"
      [] OTHER -> ""

NoSDKErr == [type |-> "", Message |-> "", StatusCode |-> 0]

\* handleErrorResponse that looks for "expired" in the status text only
handleErrorResponse_StatusTextOnly(resp) ==
    LET message == IF resp.error # "" THEN resp.error ELSE StatusText(resp.status) IN
    CASE resp.status = StatusBadRequest ->
           IF ContainsLower(StatusText(resp.status), "expired")
           THEN [type |-> "ExchangeExpiredError", Message |-> message, StatusCode |-> 400]
           ELSE [type |-> "Error", Message |-> message, StatusCode |-> 400]
      [] resp.status = StatusUnauthorized ->
           [type |-> "UnauthorizedError", Message |-> message, StatusCode |-> 401]
      [] resp.status = StatusForbidden ->
           [type |-> "ForbiddenError", Message |-> message, StatusCode |-> 403]
      [] resp.status = StatusBadGateway ->
           [type |-> "ProviderError", Message |-> message, StatusCode |-> 502]
      [] OTHER -> [type |-> "Error", Message |-> message, StatusCode |-> resp.status]

\* Client.handleErrorResponse: the error body's message, or the status text
\* when the body has none, then the error type by status
handleErrorResponse(resp) ==
    LET message == IF resp.error # "" THEN resp.error ELSE StatusText(resp.status) IN
    CASE resp.status = StatusBadRequest ->
           IF ContainsLower(message, "expired")
           THEN [type |-> "ExchangeExpiredError", Message |-> message, StatusCode |-> 400]
           ELSE [type |-> "Error", Message |-> message, StatusCode |-> 400]
      [] resp.status = StatusUnauthorized ->
           [type |-> "UnauthorizedError", Message |-> message, StatusCode |-> 401]
      [] resp.status = StatusForbidden ->
           [type |-> "ForbiddenError", Message |-> message, StatusCode |-> 403]
      [] resp.status = StatusBadGateway ->
           [type |-> "ProviderError", Message |-> message, StatusCode |-> 502]
      [] OTHER -> [type |-> "Error", Message |-> message, StatusCode |-> resp.status]

\* what answers at the client's BaseURL: the broker, a server that is down,
\* or a server that answers 502 with the broker's provider error body
Servers == {"broker", "closed", "bad-gateway"}

\* the answer to GET <BaseURL>/exchange?code=..  Authorization: Bearer <apiKey>
Answer(server, apiKey, code) ==
    IF server = "broker" THEN Exchange(code, <<"Bearer", apiKey>>)
    ELSE writeError(StatusBadGateway, "provider exchange failed")

\* Client.Exchange of the Go SDK
ClientExchange(server, apiKey, code) ==
    IF server = "closed"
    THEN [err |-> [type |-> "Error", Message |-> "network error", StatusCode |-> 0],
          user |-> ZeroUser]
    ELSE LET resp == Answer(server, apiKey, code) IN
         IF resp.status # StatusOK
         THEN [err |-> handleErrorResponse(resp), user |-> ZeroUser]
         ELSE [err |-> NoSDKErr, user |-> UnmarshalUser(resp.body.user)]

\* CentralAuthClient.exchange of the TypeScript SDK: the user object of the
\* body, or a thrown error
exchange(server, apiKey, code) ==
    IF server = "closed" THEN [threw |-> TRUE, user |-> EmptyMap]
    ELSE LET resp == Answer(server, apiKey, code) IN
         IF resp.status # StatusOK THEN [threw |-> TRUE, user |-> EmptyMap]
         ELSE [threw |-> FALSE, user |-> resp.body.user]

\* CallbackHandler of the Go SDK: the callbacks it invokes, in order
CallbackHandler(server, apiKey, code) ==
    IF code = EmptyCode
    THEN [contacted |-> FALSE, called |-> <<"onError">>, user |-> ZeroUser,
          err |-> [type |-> "Error", Message |-> "missing code parameter",
                   StatusCode |-> 400]]
    ELSE LET r == ClientExchange(server, apiKey, code) IN
         IF r.err # NoSDKErr
         THEN [contacted |-> TRUE, called |-> <<"onError">>, user |-> ZeroUser, err |-> r.err]
         ELSE [contacted |-> TRUE, called |-> <<"onSuccess">>, user |-> r.user,
               err |-> NoSDKErr]

\* createCallbackHandler of the TypeScript SDK: onSuccess is awaited inside the
\* try block, so an exception it throws reaches the catch clause
createCallbackHandler(server, apiKey, code, onSuccessThrows) ==
    IF code = EmptyCode
    THEN [contacted |-> FALSE, called |-> <<"onError">>, user |-> EmptyMap]
    ELSE LET r == exchange(server, apiKey, code) IN
         IF r.threw
         THEN [contacted |-> TRUE, called |-> <<"onError">>, user |-> EmptyMap]
         ELSE IF onSuccessThrows
         THEN [contacted |-> TRUE, called |-> <<"onSuccess", "onError">>, user |-> r.user]
         ELSE [contacted |-> TRUE, called |-> <<"onSuccess">>, user |-> r.user]

\* the codes /callback can have minted at time 0
MintedCodes ==
    { Encode(mainCodec(ExchangeEncryptionKey).codec, 0, Nonce0,
             [ClientID |-> id, ExpiresAt |-> 0,
              User |-> ProviderExchange([name |-> "discord"], GoodParams,
                                        UpstreamOK(du)).user]) :
        id \in {"website", "admin"}, du \in {DiscordUserFull, DiscordUserSparse} }

SDKKeys == {"", WebKey, AdminKey, WrongKey}

InitSDK ==
    /\ clients \in { [byID |-> NewRegistry(l).byID, byAPIKey |-> NewRegistry(l).byAPIKey] :
                       l \in {x \in RegistryInputs : NewRegistry(x).err = NoErr} }
    /\ providers = Register(Register(EmptyMap, [name |-> "discord"]).reg,
                            [name |-> "steam"]).reg
    /\ stateService = NewService(StateSigningKey)
    /\ codec = mainCodec(ExchangeEncryptionKey).codec
    /\ now = 0
    /\ elapsed = {}
    /\ carriedState = EmptyToken
    /\ carriedCode \in MintedCodes
    /\ last = Idle

\* the client's callback route, served by the Go handler
GoCallbackRequest ==
    /\ last.ep = "idle"
    /\ \E server \in Servers, apiKey \in SDKKeys,
          code \in {EmptyCode, carriedCode, TamperCode(carriedCode)} :
         last' = [ep |-> "sdk-go",
                  req |-> [ZeroReq EXCEPT !.code = code, !.authz = <<"Bearer", apiKey>>],
                  server |-> server, throws |-> FALSE,
                  out |-> CallbackHandler(server, apiKey, code),
                  resp |-> Answer(server, apiKey, code)]
    /\ Frame

\* the client's callback route, served by the TypeScript handler
TSCallbackRequest ==
    /\ last.ep = "idle"
    /\ \E server \in Servers, apiKey \in SDKKeys, onSuccessThrows \in BOOLEAN,
          code \in {EmptyCode, carriedCode, TamperCode(carriedCode)} :
         last' = [ep |-> "sdk-ts",
                  req |-> [ZeroReq EXCEPT !.code = code, !.authz = <<"Bearer", apiKey>>],
                  server |-> server, throws |-> onSuccessThrows,
                  out |-> createCallbackHandler(server, apiKey, code, onSuccessThrows),
                  resp |-> Answer(server, apiKey, code)]
    /\ Frame

\* the client's backend calls Client.Exchange itself
ClientExchangeCall ==
    /\ last.ep = "idle"
    /\ \E server \in Servers, apiKey \in SDKKeys,
          code \in {EmptyCode, carriedCode, TamperCode(carriedCode)} :
         last' = [ep |-> "sdk-exchange",
                  req |-> [ZeroReq EXCEPT !.code = code, !.authz = <<"Bearer", apiKey>>],
                  server |-> server, throws |-> FALSE,
                  out |-> ClientExchange(server, apiKey, code),
                  resp |-> Answer(server, apiKey, code)]
    /\ Frame

\* the handler or the call returned
SDKReturn ==
    /\ last.ep \in {"sdk-go", "sdk-ts", "sdk-exchange"}
    /\ last' = Idle
    /\ Frame

NextSDK ==
    GoCallbackRequest \/ TSCallbackRequest \/ ClientExchangeCall \/ SDKReturn \/ Tick

SDKSpec == InitSDK /\ [][NextSDK]_vars

----------------------------------------------------------------------------
(* Properties *)

\* the API key a well-formed "Bearer <key>" header presents ("" otherwise)
BearerKey(authHeader) ==
    IF Len(authHeader) = 2 /\ authHeader[1] = "Bearer" THEN authHeader[2] ELSE ""

\* the registered clients whose API key is k
ClientsWithKey(k) == {id \in DOMAIN clients.byID : clients.byID[id].APIKey = k}

\* C1: /exchange answers 200 with the user only when the Bearer key is the API
\* key of the registered client named inside the decoded code; when the code
\* decodes, is unexpired, and the key belongs to a registered client other
\* than the code's, the answer is 403 and carries no user data.
C1_ExchangeBoundToClient ==
    last.ep = "exchange" =>
      LET d == Decode(codec, now, last.req.code)
          k == BearerKey(last.req.authz)
      IN /\ last.resp.status = StatusOK =>
               /\ d.err = NoErr
               /\ k # ""
               /\ d.payload.ClientID \in ClientsWithKey(k)
               /\ last.resp.body = [user |-> MarshalUser(d.payload.User)]
         /\ (d.err = NoErr /\ k # "" /\ ClientsWithKey(k) # {}
                /\ d.payload.ClientID \notin ClientsWithKey(k)) =>
               /\ last.resp.status = StatusForbidden
               /\ last.resp.body = NoBody

\* a code minted for one client is presented with another client's key
C1_Witness ==
    /\ last.ep = "exchange"
    /\ last.req.code = carriedCode
    /\ Decode(codec, now, last.req.code).err = NoErr
    /\ Decode(codec, now, last.req.code).payload.ClientID = "website"
    /\ last.req.authz = <<"Bearer", AdminKey>>
    /\ ClientsWithKey(AdminKey) = {"admin"}
    /\ last.resp.status = StatusForbidden

\* the request parameters pass every check of /auth
AuthChecksPass(q) ==
    /\ q.client_id # ""
    /\ q.redirect_uri # ""
    /\ q.client_id \in DOMAIN clients.byID
    /\ q.redirect_uri \in Range(clients.byID[q.client_id].AllowedCallbacks)
    /\ q.provider \in DOMAIN providers
    /\ q.provider \in Range(clients.byID[q.client_id].AllowedProviders)

\* C2: every exchange code minted by /callback carries the client_id of the
\* verified state token of that same request, which is a token /auth issued
\* for the client_id of its own request.
C2_CodeCarriesStateClient ==
    /\ (last.ep = "callback" /\ last.resp.status = StatusFound) =>
          LET v == Validate(stateService, now, last.req.state)
              d == Decode(codec, now, last.resp.location.code)
          IN /\ v.err = NoErr
             /\ d.err = NoErr
             /\ d.payload.ClientID = v.payload.ClientID
             /\ last.req.state = carriedState
    /\ (last.ep = "auth" /\ last.resp.status = StatusFound) =>
          UnmarshalState(last.resp.location.state.enc.obj).ClientID = last.req.client_id

\* /callback minted a code from a token that /auth issued for client admin
C2_Witness ==
    /\ last.ep = "callback"
    /\ last.resp.status = StatusFound
    /\ last.req.state = carriedState
    /\ Validate(stateService, now, carriedState).payload.ClientID = "admin"
    /\ Decode(codec, now, last.resp.location.code).payload.ClientID = "admin"

\* C3: /auth, then /callback with the issued token within 5 minutes and a
\* successful provider exchange returning u, then /exchange with the minted
\* code and the client's own API key within 30 seconds, ends with 200 and a
\* body whose user equals u on every field.
C3_EndToEndFlow ==
    /\ (last.ep = "auth" /\ AuthChecksPass(last.req)) =>
          /\ last.resp.status = StatusFound
          /\ last.resp.location.state # EmptyToken
    /\ (/\ last.ep = "callback"
        /\ carriedState # EmptyToken
        /\ last.req.state = carriedState
        /\ now <= carriedState.enc.obj.exp
        /\ last.req.provider = carriedState.enc.obj.prv
        /\ ProviderExchange([name |-> last.req.provider], last.req.run.params,
                            last.req.run.up).err = NoErr) =>
          /\ last.resp.status = StatusFound
          /\ last.resp.location.to = carriedState.enc.obj.rdr
          /\ Decode(codec, now, last.resp.location.code).payload.User =
                ProviderExchange([name |-> last.req.provider], last.req.run.params,
                                 last.req.run.up).user
    /\ (/\ last.ep = "exchange"
        /\ carriedCode # EmptyCode
        /\ last.req.code = carriedCode
        /\ now <= carriedCode.pt.obj.exp
        /\ carriedCode.pt.obj.cid \in DOMAIN clients.byID
        /\ last.req.authz = <<"Bearer", clients.byID[carriedCode.pt.obj.cid].APIKey>>) =>
          /\ last.resp.status = StatusOK
          /\ last.resp.body # NoBody
          /\ UnmarshalUser(last.resp.body.user) = UnmarshalUser(carriedCode.pt.obj.user)

\* C4: every exchange code minted for client c carries a user profile obtained
\* from a provider that is in c's allowed_providers.
C4_AllowlistOverFlow ==
    (last.ep = "callback" /\ last.resp.status = StatusFound) =>
       LET p == Decode(codec, now, last.resp.location.code).payload
       IN /\ p.ClientID \in DOMAIN clients.byID
          /\ p.User.ProviderName \in Range(clients.byID[p.ClientID].AllowedProviders)

\* C5: /auth hands out a state token (302) only when client_id and
\* redirect_uri are non-empty, the client is registered, the redirect_uri is
\* in its allowed_callbacks, the provider is registered and in its
\* allowed_providers; any other request gets an error and no token; a token
\* handed out carries exactly the request's client_id, provider, redirect_uri.
C5_AuthorizeIssuesOnlyWhenAllowed ==
    last.ep = "auth" =>
       /\ last.resp.status = StatusFound => AuthChecksPass(last.req)
       /\ ~AuthChecksPass(last.req) =>
             /\ last.resp.status \in {StatusBadRequest, StatusForbidden}
             /\ last.resp.error # ""
             /\ last.resp.location = NoLocation
       /\ last.resp.location.state # EmptyToken =>
             LET v == Validate(stateService, now, last.resp.location.state) IN
             /\ last.resp.status = StatusFound
             /\ v.err = NoErr
             /\ v.payload.ClientID = last.req.client_id
             /\ v.payload.Provider = last.req.provider
             /\ v.payload.RedirectURI = last.req.redirect_uri

\* a registered client asked for a redirect_uri outside its allowlist
C5_Witness ==
    /\ last.ep = "auth"
    /\ last.req.client_id = "website"
    /\ last.req.redirect_uri = EvilCallback
    /\ last.req.provider = "discord"
    /\ last.resp.status = StatusBadRequest
    /\ last.resp.location.state = EmptyToken

\* the answer of /auth by the first failing check, in the documented order
AuthExpected(q) ==
    IF q.client_id \notin DOMAIN clients.byID
    THEN <<StatusBadRequest, "unknown client">>
    ELSE IF q.redirect_uri \notin Range(clients.byID[q.client_id].AllowedCallbacks)
    THEN <<StatusBadRequest, "redirect_uri not allowed">>
    ELSE IF q.provider \notin DOMAIN providers
    THEN <<StatusBadRequest, "unknown provider">>
    ELSE IF q.provider \notin Range(clients.byID[q.client_id].AllowedProviders)
    THEN <<StatusForbidden, "provider not allowed for this client">>
    ELSE <<StatusFound, "">>

\* C6: /auth answers by the first failing check in the order unknown client
\* (400), redirect_uri not allowed (400), unknown provider (400), provider not
\* allowed (403); 403 exactly when the client is registered, the redirect_uri
\* allowed, the provider registered and not allowed for the client; an
\* unregistered provider always yields 400.
C6_AuthorizePrecedence ==
    last.ep = "auth" =>
       /\ (last.req.client_id # "" /\ last.req.redirect_uri # "") =>
             <<last.resp.status, last.resp.error>> = AuthExpected(last.req)
       /\ last.resp.status = AuthExpected(last.req)[1]
       /\ last.resp.status = StatusForbidden <=>
             /\ last.req.client_id \in DOMAIN clients.byID
             /\ last.req.redirect_uri \in
                   Range(clients.byID[last.req.client_id].AllowedCallbacks)
             /\ last.req.provider \in DOMAIN providers
             /\ last.req.provider \notin
                   Range(clients.byID[last.req.client_id].AllowedProviders)
       /\ last.req.provider \notin DOMAIN providers =>
             last.resp.status = StatusBadRequest

\* an unregistered provider asked for by a registered client with an allowed
\* redirect_uri: the provider is not in the client's allowlist either
C6_Witness ==
    /\ last.ep = "auth"
    /\ last.req.client_id = "admin"
    /\ last.req.redirect_uri = AdminCallback
    /\ last.req.provider = "github"
    /\ last.resp.status = StatusBadRequest
    /\ last.resp.error = "unknown provider"

\* C7: at /callback, when the state parameter is missing or verification of
\* the state fails for any reason, the answer is 400, the provider's exchange
\* is never invoked and no exchange code is minted.
C7_BadStateStopsCallback ==
    (/\ last.ep = "callback"
     /\ \/ last.req.state = EmptyToken
        \/ Validate(stateService, now, last.req.state).err # NoErr) =>
       /\ last.resp.status = StatusBadRequest
       /\ ~last.resp.invoked
       /\ last.resp.calls = NoCalls
       /\ last.resp.location.code = EmptyCode

\* a token with a re-encoded payload and the original signature is presented
\* together with provider parameters that would otherwise succeed
C7_Witness ==
    /\ last.ep = "callback"
    /\ carriedState # EmptyToken
    /\ last.req.state \in TamperPayload(carriedState)
    /\ last.req.provider = "discord"
    /\ last.resp.status = StatusBadRequest
    /\ last.resp.error = "invalid state token"

\* C8: a code minted at t carries expires_at = t + 30 s; it decodes at every
\* now <= t + 30 s and is exchange-code-expired afterwards, and /exchange,
\* having reached the decode step, then answers 400 "... expired".
C8_ExchangeCodeLifetime ==
    /\ (last.ep = "callback" /\ last.resp.status = StatusFound) =>
          last.resp.location.code.pt.obj.exp = now + 30
    /\ (last.ep = "exchange" /\ carriedCode # EmptyCode /\ last.req.code = carriedCode) =>
          LET d == Decode(codec, now, carriedCode) IN
          /\ now <= carriedCode.pt.obj.exp => d.err = NoErr
          /\ now > carriedCode.pt.obj.exp =>
                /\ d.err = ErrExpiredExchangeCode
                /\ BearerKey(last.req.authz) # "" =>
                      /\ last.resp.status = StatusBadRequest
                      /\ last.resp.error = "exchange code expired"

\* a code is redeemed one second after its expiry
C8_Witness ==
    /\ last.ep = "exchange"
    /\ carriedCode # EmptyCode
    /\ last.req.code = carriedCode
    /\ now = carriedCode.pt.obj.exp + 1
    /\ BearerKey(last.req.authz) = WebKey
    /\ last.resp.status = StatusBadRequest
    /\ last.resp.error = "exchange code expired"

\* C9: a state token issued at t carries expires_at = t + 5 min; it verifies
\* at every now <= t + 5 min and is state-expired afterwards, and /callback
\* then answers 400.
C9_StateTokenLifetime ==
    /\ (last.ep = "auth" /\ last.resp.status = StatusFound) =>
          last.resp.location.state.enc.obj.exp = now + 300
    /\ (last.ep = "callback" /\ carriedState # EmptyToken
          /\ last.req.state = carriedState) =>
          LET v == Validate(stateService, now, carriedState) IN
          /\ now <= carriedState.enc.obj.exp =>
                /\ v.err = NoErr
                /\ last.resp.error \notin {"state token expired", "invalid state token"}
          /\ now > carriedState.enc.obj.exp =>
                /\ v.err = ErrExpiredState
                /\ last.resp.status = StatusBadRequest
                /\ last.resp.error = "state token expired"

\* a state token is presented one second after its expiry
C9_Witness ==
    /\ last.ep = "callback"
    /\ carriedState # EmptyToken
    /\ last.req.state = carriedState
    /\ now = carriedState.enc.obj.exp + 1
    /\ last.resp.status = StatusBadRequest
    /\ last.resp.error = "state token expired"

\* the answer of /exchange by the first failing check, in the documented order
ExchangeExpected(q) ==
    LET k == BearerKey(q.authz)
        d == Decode(codec, now, q.code)
    IN IF q.code = EmptyCode THEN StatusBadRequest
       ELSE IF k = "" THEN StatusUnauthorized
       ELSE IF d.err # NoErr THEN StatusBadRequest
       ELSE IF ClientsWithKey(k) = {} THEN StatusUnauthorized
       ELSE IF GetByAPIKey(clients, k).client.ID # d.payload.ClientID THEN StatusForbidden
       ELSE StatusOK

\* C10: /exchange answers by the first failing check in the order: code
\* missing 400; header empty, without "Bearer " or with an empty key 401; code
\* does not decode 400 ("expired" when expired, "invalid" otherwise); key not
\* registered 401; key's client differs from the code's 403; otherwise 200.
C10_ExchangePrecedence ==
    last.ep = "exchange" =>
       /\ last.resp.status = ExchangeExpected(last.req)
       /\ (last.req.code # EmptyCode /\ BearerKey(last.req.authz) # "") =>
             LET d == Decode(codec, now, last.req.code) IN
             /\ d.err = ErrExpiredExchangeCode =>
                   last.resp.error = "exchange code expired"
             /\ d.err = ErrInvalidExchangeCode =>
                   last.resp.error = "invalid exchange code"

\* a code that does not decode is presented with an unregistered key
C10_Witness ==
    /\ last.ep = "exchange"
    /\ last.req.code # EmptyCode
    /\ Decode(codec, now, last.req.code).err # NoErr
    /\ last.req.authz = <<"Bearer", WrongKey>>
    /\ ClientsWithKey(WrongKey) = {}
    /\ last.resp.status = StatusBadRequest

\* the outcome of the path provider's exchange for the request in `last`
CallbackProviderResult ==
    ProviderExchange([name |-> last.req.provider], last.req.run.params, last.req.run.up)

\* C11: at /callback with a valid state token and a registered path provider,
\* a provider failure of kind missing-params yields 400 and every other
\* provider failure yields 502; a 302 with an exchange code is produced only
\* when the provider exchange succeeded.
C11_ProviderFailureStatus ==
    last.ep = "callback" =>
       /\ (/\ Validate(stateService, now, last.req.state).err = NoErr
           /\ last.req.provider \in DOMAIN providers) =>
             /\ last.resp.invoked
             /\ CallbackProviderResult.err = ErrMissingProviderParams =>
                   last.resp.status = StatusBadRequest
             /\ CallbackProviderResult.err \notin {NoErr, ErrMissingProviderParams} =>
                   last.resp.status = StatusBadGateway
       /\ (last.resp.status = StatusFound \/ last.resp.location.code # EmptyCode) =>
             /\ Validate(stateService, now, last.req.state).err = NoErr
             /\ last.req.provider \in DOMAIN providers
             /\ CallbackProviderResult.err = NoErr

\* the provider's user endpoint failed after a successful token exchange
C11_Witness ==
    /\ last.ep = "callback"
    /\ Validate(stateService, now, last.req.state).err = NoErr
    /\ last.req.provider \in DOMAIN providers
    /\ CallbackProviderResult.err = ErrProviderUserFetch
    /\ last.resp.status = StatusBadGateway

\* C12: for every token produced by issue, the token with a changed signature
\* segment and the token with a re-encoded modified payload under the original
\* signature are rejected by verify with state-invalid; verify returns a
\* payload only for tokens whose signature is the HMAC of their payload
\* segment under the service key.
C12_StateTokenIntegrity ==
    last.ep = "callback" =>
       LET v == Validate(stateService, now, last.req.state) IN
       /\ (/\ carriedState # EmptyToken
           /\ last.req.state \in {TamperSig(carriedState)} \cup TamperPayload(carriedState)) =>
             /\ v.err = ErrInvalidState
             /\ last.resp.error = "invalid state token"
       /\ v.err = NoErr =>
             /\ last.req.state.kind = "dotted"
             /\ last.req.state.sig.key = stateService.key
             /\ last.req.state.sig.data = last.req.state.enc

\* an issued token comes back to /callback with its signature segment changed
C12_Witness ==
    /\ last.ep = "callback"
    /\ carriedState # EmptyToken
    /\ last.req.state = TamperSig(carriedState)
    /\ Validate(stateService, now, last.req.state).err = ErrInvalidState
    /\ last.resp.error = "invalid state token"

\* the codes obtained from code c by flipping one bit
BitFlips(c) == {TamperCode(c)} \cup FlipTrailingBit(c)

\* C13: for every exchange code produced by encode, every string obtained by
\* flipping any single bit of that code is rejected by decode with
\* exchange-code-invalid, never accepted and never reported as expired.
C13_BitFlipRejected ==
    carriedCode # EmptyCode =>
       \A t \in BitFlips(carriedCode) :
          Decode(codec, now, t).err = ErrInvalidExchangeCode

\* C14: a state token issued under signing key K1 is rejected by verify under
\* any key K2 # K1 with state-invalid, and an exchange code encoded under
\* encryption key K1 is rejected by decode under any key K2 # K1 with
\* exchange-code-invalid, whether or not the token or code has expired.
C14_WrongKeyRejected ==
    /\ Validate(stateService, now, ForgedToken).err = ErrInvalidState
    /\ Decode(codec, now, ForgedCode).err = ErrInvalidExchangeCode
    /\ carriedState # EmptyToken =>
          Validate(NewService(OtherKey), now, carriedState).err = ErrInvalidState
    /\ carriedCode # EmptyCode =>
          Decode(NewCodec(OtherKey).codec, now, carriedCode).err = ErrInvalidExchangeCode
    /\ (last.ep = "callback" /\ last.req.state = ForgedToken) =>
          last.resp.error = "invalid state token"
    /\ (last.ep = "exchange" /\ last.req.code = ForgedCode
          /\ BearerKey(last.req.authz) # "") =>
          last.resp.error = "invalid exchange code"

\* the broker holds an expired code of its own and is handed a code sealed
\* under another key
C14_Witness ==
    /\ last.ep = "exchange"
    /\ last.req.code = ForgedCode
    /\ BearerKey(last.req.authz) = WebKey
    /\ last.resp.status = StatusBadRequest
    /\ last.resp.error = "invalid exchange code"
    /\ carriedCode # EmptyCode
    /\ now > carriedCode.pt.obj.exp
    /\ Decode(NewCodec(OtherKey).codec, now, carriedCode).err = ErrInvalidExchangeCode

\* a box sealed under the codec's key whose plaintext is not a JSON payload
NotJSONBox ==
    Sealed(ExchangeEncryptionKey, Nonce0,
           [json |-> FALSE, obj |-> MarshalExchange(ZeroExchangePayload)])

\* what decode returns when it fails without reaching the expiry check
InvalidCode == [err |-> ErrInvalidExchangeCode, payload |-> ZeroExchangePayload]

\* C15: decode has exactly three outcomes: a payload, exchange-code-expired or
\* exchange-code-invalid; a base64url decode failure, an input shorter than
\* the nonce, an AEAD open failure and a JSON parse failure all return the
\* same exchange-code-invalid error.
C15_DecodeOutcomes ==
    /\ last.ep = "exchange" =>
          LET d == Decode(codec, now, last.req.code) IN
          /\ d.err \in {NoErr, ErrExpiredExchangeCode, ErrInvalidExchangeCode}
          /\ d.err # NoErr => d.payload = ZeroExchangePayload
          /\ last.req.code \in {EmptyCode, NotBase64Code, ShortCode, ForgedCode}
                                \cup {TamperCode(c) : c \in HeldCode(carriedCode)} =>
                /\ d = InvalidCode
                /\ (last.req.code # EmptyCode /\ BearerKey(last.req.authz) # "") =>
                      /\ last.resp.status = StatusBadRequest
                      /\ last.resp.error = "invalid exchange code"
    /\ last.ep = "idle" => Decode(codec, now, NotJSONBox) = InvalidCode

\* /exchange is handed fewer bytes than a nonce while a minted code exists
C15_Witness ==
    /\ last.ep = "exchange"
    /\ last.req.code = ShortCode
    /\ BearerKey(last.req.authz) = AdminKey
    /\ last.resp.error = "invalid exchange code"
    /\ carriedCode # EmptyCode
    /\ Decode(codec, now, TamperCode(carriedCode)) = Decode(codec, now, ShortCode)

\* verify(issue(p)) at delay d after issue, under a service with the given key
StateRoundTrip(key, nonce, p, d) ==
    Validate(NewService(key), now + d, Generate(NewService(key), now, nonce, p))

ExchangeRoundTrip(key, nonce, p, d) ==
    Decode(NewCodec(key).codec, now + d, Encode(NewCodec(key).codec, now, nonce, p))

C18_NotConsumedByUse ==
    /\ (/\ last.ep = "exchange"
        /\ carriedCode # EmptyCode
        /\ last.req.code = carriedCode
        /\ now <= carriedCode.pt.obj.exp
        /\ last.req.authz = <<"Bearer", clients.byID[carriedCode.pt.obj.cid].APIKey>>) =>
          /\ last.resp.status = StatusOK
          /\ last.resp.body = [user |-> carriedCode.pt.obj.user]
    /\ (/\ last.ep = "callback"
        /\ carriedState # EmptyToken
        /\ last.req.state = carriedState
        /\ now <= carriedState.enc.obj.exp
        /\ last.req.provider \in DOMAIN providers
        /\ CallbackProviderResult.err = NoErr) =>
          /\ last.resp.status = StatusFound
          /\ Decode(codec, now, last.resp.location.code).err = NoErr
          /\ Decode(codec, now, last.resp.location.code).payload.ClientID
                = carriedState.enc.obj.cid

\* the keys presented to by_api_key
APIKeyInputs == {"", WebKey, AdminKey, WrongKey}

\* C19: by_api_key returns invalid-api-key for every key that is not the API
\* key of a registered client, and for a registered key it returns a
\* registered client whose api_key equals the presented key.
C19_ByAPIKey ==
    /\ last.ep = "idle" =>
          \A k \in APIKeyInputs :
             LET g == GetByAPIKey(clients, k) IN
             IF ClientsWithKey(k) = {}
             THEN g = [err |-> ErrInvalidAPIKey, client |-> ZeroClient]
             ELSE /\ g.err = NoErr
                  /\ g.client.APIKey = k
                  /\ g.client.ID \in ClientsWithKey(k)
                  /\ g.client = clients.byID[g.client.ID]
    /\ (/\ last.ep = "exchange"
        /\ BearerKey(last.req.authz) # ""
        /\ Decode(codec, now, last.req.code).err = NoErr) =>
          /\ ClientsWithKey(BearerKey(last.req.authz)) = {} =>
                /\ last.resp.status = StatusUnauthorized
                /\ last.resp.error = "invalid API key"
          /\ ClientsWithKey(BearerKey(last.req.authz)) # {} =>
                last.resp.status \in {StatusOK, StatusForbidden}

\* a key that no client of this configuration holds is presented with a code
\* that decodes
C19_Witness ==
    /\ last.ep = "exchange"
    /\ last.req.authz = <<"Bearer", AdminKey>>
    /\ ClientsWithKey(AdminKey) = {}
    /\ Decode(codec, now, last.req.code).err = NoErr
    /\ GetByAPIKey(clients, AdminKey).err = ErrInvalidAPIKey
    /\ last.resp.status = StatusUnauthorized

\* two records of the list share an id
SharesID(l) == \E i, j \in DOMAIN l : i # j /\ l[i].ID = l[j].ID

\* C20: ClientRegistry construction fails with duplicate-client-id exactly
\* when two input records share an id; whenever it succeeds, client ids are
\* unique, by_id(c.id) returns record c for every input record c and by_id of
\* any other id returns client-not-found.
C20_RegistryConstruction ==
    /\ last.ep = "idle" =>
          \A l \in RegistryInputs :
             LET r == NewRegistry(l) IN
             /\ r.err = (IF SharesID(l) THEN ErrDuplicateClientID ELSE NoErr)
             /\ r.err = NoErr =>
                   /\ \A i \in DOMAIN l : Get(r, l[i].ID) = [err |-> NoErr, client |-> l[i]]
                   /\ \A id \in ClientIDInputs \ {l[i].ID : i \in DOMAIN l} :
                         Get(r, id) = [err |-> ErrClientNotFound, client |-> ZeroClient]
    /\ \A id \in DOMAIN clients.byID : clients.byID[id].ID = id
    /\ (/\ last.ep = "auth"
        /\ last.req.client_id # "" /\ last.req.redirect_uri # "") =>
          /\ last.req.client_id \notin DOMAIN clients.byID <=>
                Get(clients, last.req.client_id).err = ErrClientNotFound
          /\ Get(clients, last.req.client_id).err = ErrClientNotFound =>
                /\ last.resp.status = StatusBadRequest
                /\ last.resp.error = "unknown client"

\* construction was refused for a list with a repeated id, and the registry
\* built from an accepted list does not know the client a request names
C20_Witness ==
    /\ \E l \in RegistryInputs : NewRegistry(l).err = ErrDuplicateClientID
    /\ \E l \in RegistryInputs :
          /\ NewRegistry(l).err = NoErr
          /\ clients.byID = NewRegistry(l).byID
    /\ last.ep = "auth"
    /\ last.req.client_id = "unknown"
    /\ Get(clients, "unknown").err = ErrClientNotFound
    /\ last.resp.error = "unknown client"

\* the URIs presented to validate_callback: the request inputs and strings
\* that differ from an allowed entry in case, by a suffix, or by being a
\* prefix or a pattern of it
CallbackURIInputs ==
    RedirectInputs \cup
    { "https://example.com/auth/callback?next=1", "HTTPS://EXAMPLE.COM/auth/callback",
      "https://example.com/auth/", "https://example.com/*", "https://admin.example.com/callback#" }

\* C21: validate_callback(client_id, uri) is ok exactly when uri is
\* string-equal to an entry of that client's allowed_callbacks, is
\* callback-not-allowed for every other uri of a registered client, and
\* client-not-found for an unregistered client_id; /auth refuses such a uri.
C21_ValidateCallbackExact ==
    /\ last.ep = "idle" =>
          \A id \in ClientIDInputs, uri \in CallbackURIInputs :
             ValidateCallback(clients, id, uri) =
                IF id \notin DOMAIN clients.byID THEN ErrClientNotFound
                ELSE IF uri \in Range(clients.byID[id].AllowedCallbacks) THEN NoErr
                ELSE ErrCallbackNotAllowed
    /\ (/\ last.ep = "auth"
        /\ last.req.redirect_uri # ""
        /\ last.req.client_id \in DOMAIN clients.byID
        /\ last.req.redirect_uri
              \notin Range(clients.byID[last.req.client_id].AllowedCallbacks)) =>
          /\ last.resp.status = StatusBadRequest
          /\ last.resp.error = "redirect_uri not allowed"

\* /auth was asked for an allowed callback of the client with one character
\* appended, and for another client's callback
C21_Witness ==
    /\ last.ep = "auth"
    /\ last.req.client_id = "website"
    /\ last.req.redirect_uri = NearCallback
    /\ ValidateCallback(clients, "website", NearCallback) = ErrCallbackNotAllowed
    /\ ValidateCallback(clients, "website", AdminCallback) = ErrCallbackNotAllowed
    /\ ValidateCallback(clients, "admin", AdminCallback) = NoErr
    /\ last.resp.error = "redirect_uri not allowed"

\* the provider names the registry is asked for
ProviderNameInputs == ProviderInputs \cup {"", "unknown"}

\* C22: register(p) fails with duplicate when the name is already registered
\* and leaves the earlier provider in place; after any sequence of register
\* calls, get(name) succeeds exactly for the names that were registered,
\* returning the provider of the first call for that name, and names() is
\* exactly that set.
C22_ProviderRegistry ==
    last.ep = "register" =>
      LET calls == last.calls
          first(n) == CHOOSE i \in DOMAIN calls :
                         calls[i].name = n /\ \A j \in 1..(i - 1) : calls[j].name # n
          registered == {calls[i].name : i \in DOMAIN calls}
      IN /\ \A i \in DOMAIN calls :
               last.errs[i] = IF \E j \in 1..(i - 1) : calls[j].name = calls[i].name
                              THEN ErrDuplicateProvider ELSE NoErr
         /\ \A n \in ProviderNameInputs :
               ProviderGet(providers, n) =
                  IF n \in registered
                  THEN [err |-> NoErr, provider |-> calls[first(n)]]
                  ELSE [err |-> ErrProviderNotFound, provider |-> [name |-> ""]]
         /\ Names(providers) = registered
         /\ \A p \in ProviderValues :
               p.name \in registered =>
                  Register(providers, p) = [err |-> ErrDuplicateProvider, reg |-> providers]

\* a second discord provider was refused after discord and steam were
\* registered, and the first one is still the one get returns
C22_Witness ==
    /\ last.ep = "register"
    /\ Len(last.calls) = 3
    /\ last.calls[1].name = "discord"
    /\ last.calls[2].name = "steam"
    /\ last.calls[3].name = "discord"
    /\ last.calls[3] # last.calls[1]
    /\ last.errs = <<NoErr, NoErr, ErrDuplicateProvider>>
    /\ ProviderGet(providers, "discord").provider = last.calls[1]
    /\ Names(providers) = {"discord", "steam"}

\* keys of 0, 9, 16, 24, 31, 32, 33 and 64 bytes
EncryptionKeyInputs ==
    { "", "too-short", "0123456789abcdef", "0123456789abcdef01234567",
      "0123456789012345678901234567890", ExchangeEncryptionKey, OtherKey,
      "012345678901234567890123456789012",
      "0123456789012345678901234567890101234567890123456789012345678901" }

\* C23: constructing the exchange codec fails for every key whose length is
\* not exactly 32 bytes and succeeds for every 32-byte key.
C23_CodecKeyLength ==
    last.ep = "idle" =>
       \A key \in EncryptionKeyInputs \cup {codec.key} :
          NewCodec(key).err = NoErr <=> Len(key) = ExchangeKeyLen

\* the endpoints the request has called so far, in order
OutboundNames == [i \in DOMAIN last.out |-> last.out[i].to]

\* Exchange has returned to the handler
ExchangeReturned == last.pc \in {"respond", "done"}

\* the token endpoint's answer is not a success
TokenFails(up) == up.tokenStatus # StatusOK \/ ~up.tokenJSON \/ up.accessToken = ""

\* the user endpoint's answer is not a success
UserFails(up) == up.userStatus # StatusOK \/ ~up.userJSON

\* C24: Discord exchange runs its steps in order and stops at the first
\* failure: a missing or empty code gives missing-params with no outbound
\* request; a token-endpoint failure gives provider-exchange and the user
\* endpoint is never called; a user-endpoint failure gives provider-user-fetch;
\* a result is returned only when both calls succeeded, with provider
\* "discord" and display_name falling back to username.
C24_DiscordExchangeOrder ==
    (last.ep = "provider" /\ last.provider = "discord") =>
      /\ OutboundNames \in {<<>>, <<"discord-token">>, <<"discord-token", "discord-user">>}
      /\ Missing(last.params, "code") =>
            /\ OutboundNames = <<>>
            /\ ExchangeReturned => last.err = ErrMissingProviderParams
      /\ (~Missing(last.params, "code") /\ TokenFails(last.up)) =>
            /\ Len(OutboundNames) <= 1
            /\ ExchangeReturned =>
                  (last.err = ErrProviderExchange /\ OutboundNames = <<"discord-token">>)
      /\ Len(last.out) = 2 =>
            /\ last.out[1].form.code = last.params["code"]
            /\ last.out[2].form.bearer = last.up.accessToken
            /\ (ExchangeReturned /\ UserFails(last.up)) => last.err = ErrProviderUserFetch
      /\ (ExchangeReturned /\ last.err = NoErr) =>
            /\ OutboundNames = <<"discord-token", "discord-user">>
            /\ ~TokenFails(last.up) /\ ~UserFails(last.up)
            /\ last.user.ProviderName = "discord"
            /\ last.user.ProviderID = last.up.du.id
            /\ last.user.Username = last.up.du.username
            /\ last.user.DisplayName = IF last.up.du.global_name = ""
                                       THEN last.up.du.username
                                       ELSE last.up.du.global_name
      /\ (ExchangeReturned /\ last.err # NoErr) => last.user = ZeroUser
      /\ (last.pc = "done" /\ last.cancelledAt = "") =>
            /\ [err |-> last.err, user |-> last.user, calls |-> OutboundNames]
                  = DiscordExchange(CollectedParams, last.up)
            /\ last.resp = Callback("discord", CollectedParams, last.up, Nonce0)

\* both calls succeeded for a user without a global name
C24_Witness ==
    /\ last.ep = "provider"
    /\ last.provider = "discord"
    /\ last.pc = "done"
    /\ last.up.du.global_name = ""
    /\ OutboundNames = <<"discord-token", "discord-user">>
    /\ last.err = NoErr
    /\ last.user.DisplayName = "testuser"
    /\ last.resp.status = StatusFound

\* C25: Steam exchange never fetches or returns a profile without a positive
\* assertion check: a missing or empty openid.claimed_id gives missing-params
\* with no outbound request; otherwise all openid.* parameters are POSTed with
\* openid.mode overwritten to check_authentication, and unless the answer
\* contains is_valid:true the result is provider-exchange and
\* GetPlayerSummaries is never called; SteamID extraction and the profile
\* fetch happen only after the check succeeded.
C25_SteamAssertionFirst ==
    (last.ep = "provider" /\ last.provider = "steam") =>
      /\ OutboundNames \in {<<>>, <<"steam-check">>, <<"steam-check", "steam-summary">>}
      /\ Missing(last.params, "openid.claimed_id") =>
            /\ OutboundNames = <<>>
            /\ ExchangeReturned => last.err = ErrMissingProviderParams
      /\ (~Missing(last.params, "openid.claimed_id") /\ last.pc # "exchange") =>
            Len(last.out) >= 1
      /\ Len(last.out) >= 1 =>
            LET form == last.out[1].form IN
            /\ form["openid.mode"] = "check_authentication"
            /\ \A k \in DOMAIN last.params :
                  IF k \in {"openid.claimed_id", "openid.sig"}
                  THEN k \in DOMAIN form /\ form[k] = last.params[k]
                  ELSE k = "openid.mode" \/ k \notin DOMAIN form
            /\ "state" \notin DOMAIN form
      /\ (~Missing(last.params, "openid.claimed_id") /\ ~last.up.isValid) =>
            /\ Len(last.out) <= 1
            /\ ExchangeReturned =>
                  (last.err = ErrProviderExchange /\ last.user = ZeroUser)
      /\ Len(last.out) = 2 =>
            /\ last.up.isValid
            /\ last.cancelledAt \notin {"exchange", "check"}
            /\ last.out[2].form.steamids = extractSteamID(last.params["openid.claimed_id"])
            /\ last.out[2].form.steamids # ""
      /\ (ExchangeReturned /\ last.err = NoErr) =>
            /\ OutboundNames = <<"steam-check", "steam-summary">>
            /\ last.up.isValid
            /\ last.user.ProviderName = "steam"
            /\ last.user.ProviderID = last.up.players[1].steamid
      /\ (last.pc = "done" /\ last.cancelledAt = "") =>
            /\ [err |-> last.err, user |-> last.user, calls |-> OutboundNames]
                  = SteamExchange(CollectedParams, last.up)
            /\ last.resp = Callback("steam", CollectedParams, last.up, Nonce0)

\* the browser brought an id_res assertion, Steam did not confirm it, and the
\* request ended without a player-summary call
C25_Witness ==
    /\ last.ep = "provider"
    /\ last.provider = "steam"
    /\ last.pc = "done"
    /\ last.cancelledAt = ""
    /\ last.params = GoodParams
    /\ last.params["openid.mode"] = "id_res"
    /\ ~last.up.isValid
    /\ OutboundNames = <<"steam-check">>
    /\ last.out[1].form["openid.mode"] = "check_authentication"
    /\ last.out[1].form["openid.claimed_id"] = SteamIdentity
    /\ last.err = ErrProviderExchange
    /\ last.resp.status = StatusBadGateway

\* the whole text is http(s)://steamcommunity.com/openid/id/ followed by digits
IsSteamIdentity(claimedID) ==
    \E p \in steamIDRegex :
       /\ HasPrefix(claimedID, p)
       /\ Len(claimedID) > Len(p)
       /\ \A k \in (Len(p) + 1)..Len(claimedID) : SubSeq(claimedID, k, k) \in Digits

\* C26: Steam exchange fails with provider-exchange, without fetching any
\* player summary, for every openid.claimed_id that is not an identity URL of
\* the form http(s)://steamcommunity.com/openid/id/<digits>.
C26_ClaimedIDMustBeSteamIdentity ==
    (/\ last.ep = "provider"
     /\ last.provider = "steam"
     /\ ~Missing(last.params, "openid.claimed_id")
     /\ ~IsSteamIdentity(last.params["openid.claimed_id"])) =>
       /\ OutboundNames \in {<<>>, <<"steam-check">>}
       /\ ExchangeReturned => last.err = ErrProviderExchange

\* the positions at which an outbound request is outstanding or still to be sent
OutboundPending == {"exchange", "token", "user", "check", "summary"}

\* the request was cancelled while a provider call was outstanding or ahead,
\* and the handler has returned
CancelledAndReturned ==
    /\ last.ep = "provider"
    /\ last.cancelledAt \in OutboundPending
    /\ last.pc = "done"

\* C27: cancellation of an inbound /callback request propagates into every
\* outbound provider call made for it: once the request is cancelled the
\* outstanding call is aborted, the handler eventually returns, and no
\* exchange code is minted for that request.
C27_CancellationPropagates ==
    /\ [](CancelledAndReturned =>
             /\ last.resp.status # StatusFound
             /\ last.resp.location.code = EmptyCode
             /\ last.err # NoErr
             /\ last.user = ZeroUser
             /\ last.cancelledAt \in {"token", "check"} =>
                   (last.err = ErrProviderExchange /\ Len(last.out) = 1)
             /\ last.cancelledAt \in {"user", "summary"} =>
                   (last.err = ErrProviderUserFetch /\ Len(last.out) = 2)
             /\ last.cancelledAt = "exchange" => Len(last.out) <= 1)
    /\ (last.ep = "provider" /\ last.ctxDone) ~> (last.pc = "done")

\* the request was cancelled while the user call was outstanding, both
\* endpoints being ready to answer well, and ended with 502
C27_Witness ==
    /\ CancelledAndReturned
    /\ last.cancelledAt = "user"
    /\ ~TokenFails(last.up) /\ ~UserFails(last.up)
    /\ last.err = ErrProviderUserFetch
    /\ last.resp.status = StatusBadGateway

\* C28: after a termination signal the server accepts no new request,
\* in-flight requests are allowed to finish, and the process eventually
\* terminates: normally once in-flight requests have drained, or with a fatal
\* shutdown error once the 10-second deadline has passed; Shutdown on a server
\* with no in-flight requests returns without error.
C28_GracefulShutdown ==
    /\ [][(last.ep = "server" /\ last.phase # "serving") =>
             last'.accepted = last.accepted]_vars
    /\ []((last.ep = "server" /\ last.phase \in {"serving", "draining"}) =>
             /\ last.aborted = 0
             /\ last.exit = -1
             /\ last.accepted = last.inflight + last.finished)
    /\ []((last.ep = "server" /\ last.phase = "stopped") =>
             /\ last.exit = 0
             /\ last.inflight = 0
             /\ last.aborted = 0
             /\ last.finished = last.accepted)
    /\ []((last.ep = "server" /\ last.phase = "fatal") =>
             /\ last.exit = 1
             /\ last.since >= ShutdownTimeout
             /\ last.aborted > 0
             /\ last.atShutdown > 0)
    /\ (last.ep = "server" /\ last.phase = "draining")
          ~> (last.phase \in {"stopped", "fatal"})

\* two requests were in flight at the signal, one finished during the wait
\* and the other did not return within the deadline
C28_Witness ==
    /\ last.ep = "server"
    /\ last.phase = "fatal"
    /\ last.atShutdown = 2
    /\ last.finished = last.accepted - 1
    /\ last.aborted = 1
    /\ last.since = ShutdownTimeout

\* the values main builds before the server starts
StartupState ==
    [clients |-> [byID |-> NewRegistry(<<Admin(AdminKey), Website(WebKey)>>).byID,
                  byAPIKey |-> NewRegistry(<<Admin(AdminKey), Website(WebKey)>>).byAPIKey],
     providers |-> Register(Register(EmptyMap, [name |-> "discord"]).reg,
                            [name |-> "steam"]).reg,
     stateService |-> NewService(StateSigningKey),
     codec |-> mainCodec(ExchangeEncryptionKey).codec]

RejectedTokenInputs ==
    { NoDotToken, ForgedToken,
      Dotted(SegmentNotBase64, GarbageSig),
      Dotted(SegmentNotJSON, GarbageSig),
      Dotted(SegmentNotBase64, sign(stateService, SegmentNotBase64)),
      Dotted(SegmentNotJSON, sign(stateService, SegmentNotJSON)) }

\* C30: at /callback a state token rejected for a bad signature and one
\* rejected for a structural defect (no separator, undecodable or unparsable
\* payload) get identical responses, status 400 with the same "invalid" error
\* body; only expiry of an authentic token gets a different ("expired")
\* message.
C30_StateRejectionsIndistinguishable ==
    (last.ep = "callback" /\ last.req.state # EmptyToken) =>
      LET v == Validate(stateService, now, last.req.state) IN
      /\ v.err \in {ErrInvalidState, ErrMalformedState} =>
            /\ last.resp = writeError(StatusBadRequest, "invalid state token")
            /\ \A t \in RejectedTokenInputs :
                  /\ Validate(stateService, now, t).err
                        \in {ErrInvalidState, ErrMalformedState}
                  /\ Callback(last.req.provider, last.req.run.params @@ [state |-> t],
                              last.req.run.up, Nonce0) = last.resp
      /\ v.err = ErrExpiredState =>
            /\ last.resp = writeError(StatusBadRequest, "state token expired")
            /\ hmacEqual(last.req.state.sig, sign(stateService, last.req.state.enc))
            /\ now > last.req.state.enc.obj.exp
      /\ last.resp.error = "state token expired" => v.err = ErrExpiredState

\* a token with a changed signature was refused, with the answer a token
\* without a separator gets
C30_Witness ==
    /\ last.ep = "callback"
    /\ carriedState # EmptyToken
    /\ last.req.state = TamperSig(carriedState)
    /\ Validate(stateService, now, last.req.state).err = ErrInvalidState
    /\ Validate(stateService, now, NoDotToken).err = ErrMalformedState
    /\ last.resp.status = StatusBadRequest
    /\ last.resp.error = "invalid state token"

\* the same upstream answers carrying another user's profile
OtherProfiles(up) ==
    { [up EXCEPT !.du = du, !.players = ps] :
        du \in {DiscordUserFull, DiscordUserSparse},
        ps \in {<<SteamPlayer>>, <<[SteamPlayer EXCEPT !.personaname = "other"]>>} }

\* a response with the plaintext of its code, readable with the codec key
\* only, put aside (the length of the code stays)
Visible(resp) ==
    [resp EXCEPT !.location.code.pt = Plain(MarshalExchange(ZeroExchangePayload)),
                 !.calls = <<>>]

\* C31: user profile data leaves the broker only in the 200 body of
\* /exchange: the 302 of /callback carries the state's redirect_uri and a code
\* sealed under the codec key and nothing else, and no response of /auth or
\* /callback, and no error response of /exchange, has a body or depends on
\* the profile the provider returned.
C31_UserDataOnlyFromExchange ==
    last.ep \in {"auth", "callback", "exchange"} =>
      /\ last.resp.body # NoBody => (last.ep = "exchange" /\ last.resp.status = StatusOK)
      /\ (last.ep = "exchange" /\ last.resp.status # StatusOK) =>
            last.resp = writeError(last.resp.status, last.resp.error)
      /\ last.ep = "auth" => last.resp.location.code = EmptyCode
      /\ last.ep = "callback" =>
            /\ last.resp.status # StatusFound =>
                  /\ last.resp.location = NoLocation
                  /\ \A up \in OtherProfiles(last.req.run.up) :
                        Visible(Callback(last.req.provider,
                                         last.req.run.params @@ [state |-> last.req.state],
                                         up, Nonce0)) = Visible(last.resp)
            /\ last.resp.status = StatusFound =>
                  /\ last.resp.location.to =
                        Validate(stateService, now, last.req.state).payload.RedirectURI
                  /\ last.resp.location.state = EmptyToken
                  /\ last.resp.location.code.kind = "sealed"
                  /\ last.resp.location.code.key = codec.key
                  /\ ~Open([key |-> OtherKey], last.resp.location.code)
                  /\ \A up \in OtherProfiles(last.req.run.up) :
                        LET other == Callback(last.req.provider,
                                              last.req.run.params @@ [state |-> last.req.state],
                                              up, last.resp.location.code.nonce)
                        IN [Visible(other) EXCEPT !.location.code.trailing = 0] =
                           [Visible(last.resp) EXCEPT !.location.code.trailing = 0]

\* /callback redirected with a code that holds a full profile, e-mail included
C31_Witness ==
    /\ last.ep = "callback"
    /\ last.resp.status = StatusFound
    /\ last.resp.body = NoBody
    /\ Decode(codec, now, last.resp.location.code).payload.User.Email = "tactical@example.com"

\* the exchange behind the handler of the request in `last` succeeded
SDKExchangeSucceeded ==
    /\ last.req.code # EmptyCode
    /\ last.server # "closed"
    /\ last.resp.status = StatusOK

\* C32: the SDK callback handlers invoke exactly one of onSuccess / onError,
\* exactly once, per callback request: onError without contacting the broker
\* when the code parameter is missing, onError when the exchange fails, and
\* onSuccess with the returned user, and then never onError, when the
\* exchange succeeds.
C32_ExactlyOneCallback ==
    last.ep \in {"sdk-go", "sdk-ts"} =>
      /\ Len(last.out.called) = 1
      /\ last.req.code = EmptyCode =>
            (last.out.called = <<"onError">> /\ ~last.out.contacted)
      /\ (last.req.code # EmptyCode /\ ~SDKExchangeSucceeded) =>
            (last.out.called = <<"onError">> /\ last.out.contacted)
      /\ SDKExchangeSucceeded =>
            /\ last.out.called = <<"onSuccess">>
            /\ last.out.contacted
            /\ last.out.user \in {last.resp.body.user, UnmarshalUser(last.resp.body.user)}

\* C33: the Go SDK's Exchange classifies every answer of /exchange as the
\* broker meant it: 200 gives the user; 400 for an expired code gives
\* ExchangeExpiredError and every other 400 a generic Error with status 400;
\* 401 gives UnauthorizedError; 403 ForbiddenError; 502 ProviderError; a
\* transport failure a generic Error.
C33_SDKClassifiesExchange ==
    last.ep = "sdk-exchange" =>
      LET r == last.out
          d == Decode(codec, now, last.req.code)
          k == BearerKey(last.req.authz)
      IN /\ last.server = "closed" =>
               (r.err.type = "Error" /\ r.err.StatusCode = 0 /\ r.user = ZeroUser)
         /\ last.server = "bad-gateway" =>
               (r.err.type = "ProviderError" /\ r.err.StatusCode = StatusBadGateway)
         /\ last.server = "broker" =>
               /\ r.err = NoSDKErr <=>
                     (d.err = NoErr /\ k # "" /\ d.payload.ClientID \in ClientsWithKey(k)
                        /\ GetByAPIKey(clients, k).client.ID = d.payload.ClientID)
               /\ r.err = NoSDKErr => r.user = d.payload.User
               /\ r.err # NoSDKErr =>
                     /\ r.user = ZeroUser
                     /\ r.err.Message = last.resp.error
                     /\ r.err.StatusCode = last.resp.status
               /\ r.err.type = "ExchangeExpiredError" <=>
                     (last.req.code # EmptyCode /\ k # ""
                        /\ d.err = ErrExpiredExchangeCode)
               /\ (r.err.type = "Error" /\ r.err.StatusCode = StatusBadRequest) <=>
                     (last.req.code = EmptyCode
                        \/ (k # "" /\ d.err = ErrInvalidExchangeCode))
               /\ r.err.type = "UnauthorizedError" <=>
                     (last.req.code # EmptyCode
                        /\ (k = "" \/ (d.err = NoErr /\ ClientsWithKey(k) = {})))
               /\ r.err.type = "ForbiddenError" <=>
                     (d.err = NoErr /\ k # "" /\ ClientsWithKey(k) # {}
                        /\ GetByAPIKey(clients, k).client.ID # d.payload.ClientID)
               /\ r.err.type \in {"", "Error", "ExchangeExpiredError",
                                  "UnauthorizedError", "ForbiddenError"}

\* Exchange was called with a code that had expired and with the client's key
C33_Witness ==
    /\ last.ep = "sdk-exchange"
    /\ last.server = "broker"
    /\ last.req.code = carriedCode
    /\ now > carriedCode.pt.obj.exp
    /\ last.resp.status = StatusBadRequest
    /\ last.out.err.type = "ExchangeExpiredError"

----------------------------------------------------------------------------
(* The two codecs called directly, as their packages' tests call them *)

\* payloads a caller hands to Generate, some with lifetime fields of its own
StatePayloadInputs ==
    { [ClientID |-> id, Provider |-> "discord", RedirectURI |-> WebCallback,
       Nonce |-> n, ExpiresAt |-> e] :
        id \in {"website", "admin"}, n \in {"", "caller-nonce"}, e \in {0, 86400} }

\* payloads a caller hands to Encode
ExchangePayloadInputs ==
    { [ClientID |-> id, ExpiresAt |-> e,
       User |-> [ZeroUser EXCEPT !.ProviderName = "discord", !.ProviderID = "123"]] :
        id \in {"website", "admin"}, e \in {0, 86400} }

\* a token signed with another key whose expires_at is the time of issue
ForgedExpiredToken ==
    Generate([key |-> OtherKey, expiry |-> 0], 0, Nonce0,
             [ZeroStatePayload EXCEPT !.ClientID = "website", !.Provider = "discord",
                                      !.RedirectURI = EvilCallback])

\* a code sealed with another key whose expires_at is the time of issue
ForgedExpiredCode ==
    Encode([key |-> OtherKey, expiry |-> 0], 0, Nonce0,
           [ZeroExchangePayload EXCEPT !.ClientID = "website"])

InitCodec ==
    /\ clients = [byID |-> NewRegistry(<<>>).byID, byAPIKey |-> NewRegistry(<<>>).byAPIKey]
    /\ providers = EmptyMap
    /\ stateService = NewService(StateSigningKey)
    /\ codec = NewCodec(ExchangeEncryptionKey).codec
    /\ now = 0
    /\ elapsed = {}
    /\ carriedState = EmptyToken
    /\ carriedCode = EmptyCode
    /\ last = Idle

\* Service.Generate
GenerateCall ==
    /\ last.ep = "idle"
    /\ \E payload \in StatePayloadInputs, nonce \in Nonces :
         /\ last' = [ep |-> "generate", payload |-> payload, nonce |-> nonce,
                     token |-> Generate(stateService, now, nonce, payload)]
         /\ carriedState' = Generate(stateService, now, nonce, payload)
    /\ UNCHANGED <<clients, providers, stateService, codec, now, elapsed, carriedCode>>

\* Service.Validate
ValidateCall ==
    /\ last.ep = "idle"
    /\ \E token \in StateInputs \cup RejectedTokenInputs \cup {ForgedExpiredToken} :
         last' = [ep |-> "validate", token |-> token,
                  out |-> Validate(stateService, now, token)]
    /\ Frame

\* Codec.Encode
EncodeCall ==
    /\ last.ep = "idle"
    /\ \E payload \in ExchangePayloadInputs :
         /\ last' = [ep |-> "encode", payload |-> payload, nonce |-> Nonce0,
                     code |-> Encode(codec, now, Nonce0, payload)]
         /\ carriedCode' = Encode(codec, now, Nonce0, payload)
    /\ UNCHANGED <<clients, providers, stateService, codec, now, elapsed, carriedState>>

\* Codec.Decode
DecodeCall ==
    /\ last.ep = "idle"
    /\ \E code \in CodeInputs \cup {NotJSONBox, ForgedExpiredCode} :
         last' = [ep |-> "decode", code |-> code, out |-> Decode(codec, now, code)]
    /\ Frame

\* the call returned
CodecReturn ==
    /\ last.ep \in {"generate", "validate", "encode", "decode"}
    /\ last' = Idle
    /\ Frame

NextCodec == GenerateCall \/ ValidateCall \/ EncodeCall \/ DecodeCall \/ CodecReturn \/ Tick

CodecSpec == InitCodec /\ [][NextCodec]_vars

\* the token lacks the separator, or its payload segment does not decode or
\* does not parse
StructuralFailure(token) ==
    token.kind # "dotted" \/ ~token.enc.b64 \/ ~token.enc.json

\* C34 as stated: verify returns state-malformed for every token with a
\* structural failure: a token without a `.` separator, a token whose payload
\* segment is not valid unpadded base64url, and a token whose decoded payload
\* is not a valid serialized StatePayload.
C34_MalformedOnStructuralFailure ==
    (last.ep = "validate" /\ StructuralFailure(last.token)) =>
       last.out.err = ErrMalformedState

\* C34 amended: verify returns state-malformed for a token without a `.`
\* separator, and for a token whose signature verifies over a payload segment
\* that is not valid base64url or does not parse; a token with such a payload
\* segment and a signature that does not verify is reported state-invalid.
C34_MalformedAfterSignature ==
    (last.ep = "validate" /\ StructuralFailure(last.token)) =>
       /\ last.out.payload = ZeroStatePayload
       /\ last.token.kind # "dotted" => last.out.err = ErrMalformedState
       /\ last.token.kind = "dotted" =>
            IF hmacEqual(last.token.sig, sign(stateService, last.token.enc))
            THEN last.out.err = ErrMalformedState
            ELSE last.out.err = ErrInvalidState

\* a token whose payload segment is no base64url, under a signature that does
\* not verify, was reported invalid
C34_Witness ==
    /\ last.ep = "validate"
    /\ last.token = Dotted(SegmentNotBase64, GarbageSig)
    /\ last.out.err = ErrInvalidState

\* C35: /callback/{provider} does not compare the path provider with the
\* provider inside the verified state: with a valid state token issued for
\* provider A, a request to /callback/B with B registered is accepted, the
\* exchange is delegated to B, and on success an exchange code is minted for
\* the state's client_id and sent to the state's redirect_uri.
C35_PathProviderNotCompared ==
    last.ep = "callback" =>
      LET v == Validate(stateService, now, last.req.state)
          theirs == ProviderExchange([name |-> last.req.provider],
                                     last.req.run.params @@ [state |-> last.req.state],
                                     last.req.run.up)
      IN (/\ v.err = NoErr
          /\ last.req.provider \in DOMAIN providers
          /\ last.req.provider # v.payload.Provider) =>
            /\ last.resp.invoked
            /\ last.resp.calls = theirs.calls
            /\ theirs.err = ErrMissingProviderParams =>
                  last.resp.error = "missing provider parameters"
            /\ theirs.err \notin {NoErr, ErrMissingProviderParams} =>
                  last.resp.status = StatusBadGateway
            /\ theirs.err = NoErr =>
                  /\ last.resp.status = StatusFound
                  /\ last.resp.location.to = v.payload.RedirectURI
                  /\ Decode(codec, now, last.resp.location.code).err = NoErr
                  /\ Decode(codec, now, last.resp.location.code).payload.ClientID =
                        v.payload.ClientID
                  /\ Decode(codec, now, last.resp.location.code).payload.User = theirs.user
                  /\ theirs.user.ProviderName = last.req.provider

\* a state token issued for discord was redeemed at /callback/steam
C35_Witness ==
    /\ last.ep = "callback"
    /\ last.req.provider = "steam"
    /\ last.req.state = carriedState
    /\ Validate(stateService, now, last.req.state).err = NoErr
    /\ Validate(stateService, now, last.req.state).payload.Provider = "discord"
    /\ last.resp.status = StatusFound
    /\ Decode(codec, now, last.resp.location.code).payload.User.ProviderName = "steam"

\* C36: every registered client can redeem its own codes: for every client
\* list that the registry's construction accepts and every client c of it,
\* by_api_key(c.api_key) returns c itself, so /exchange with c's API key and
\* an unexpired code minted for c never answers 403.
C36_OwnCodesRedeemable ==
    /\ \A id \in DOMAIN clients.byID :
          GetByAPIKey(clients, clients.byID[id].APIKey) =
             [err |-> NoErr, client |-> clients.byID[id]]
    /\ (/\ last.ep = "exchange"
        /\ Decode(codec, now, last.req.code).err = NoErr
        /\ BearerKey(last.req.authz) # ""
        /\ Decode(codec, now, last.req.code).payload.ClientID
              \in ClientsWithKey(BearerKey(last.req.authz))) =>
          last.resp.status # StatusForbidden

\* the callbacks the registry allows the client named in a state payload
AllowedFor(payload) ==
    IF payload.ClientID \in DOMAIN clients.byID
    THEN Range(clients.byID[payload.ClientID].AllowedCallbacks)
    ELSE {}

C38_AuthenticationBeforeExpiry ==
    /\ last.ep = "validate" =>
          /\ last.out.err = ErrExpiredState =>
                /\ last.token.kind = "dotted"
                /\ hmacEqual(last.token.sig, sign(stateService, last.token.enc))
                /\ last.token.sig.key = stateService.key
                /\ now > last.token.enc.obj.exp
          /\ (/\ last.token.kind = "dotted"
              /\ ~hmacEqual(last.token.sig, sign(stateService, last.token.enc))) =>
                last.out.err = ErrInvalidState
    /\ last.ep = "decode" =>
          /\ last.out.err = ErrExpiredExchangeCode =>
                /\ Open(codec, last.code)
                /\ last.code.key = codec.key
                /\ now > last.code.pt.obj.exp
          /\ (last.code.kind = "sealed" /\ ~Open(codec, last.code)) =>
                last.out.err = ErrInvalidExchangeCode

\* a code sealed under another key, its expires_at in the past, was reported
\* invalid
C38_Witness ==
    /\ last.ep = "decode"
    /\ last.code = ForgedExpiredCode
    /\ now > last.code.pt.obj.exp
    /\ last.out.err = ErrInvalidExchangeCode

----------------------------------------------------------------------------
(* One flow followed from /auth to /exchange, with the times of its steps *)

NotRedeemed == [status |-> 0, minted |-> 0, at |-> 0, body |-> NoBody]

InitFlow ==
    /\ clients \in { [byID |-> NewRegistry(l).byID, byAPIKey |-> NewRegistry(l).byAPIKey] :
                       l \in {x \in RegistryInputs : NewRegistry(x).err = NoErr} }
    /\ providers = Register(Register(EmptyMap, [name |-> "discord"]).reg,
                            [name |-> "steam"]).reg
    /\ stateService = NewService(StateSigningKey)
    /\ codec = mainCodec(ExchangeEncryptionKey).codec
    /\ now = 0
    /\ elapsed = {}
    /\ carriedState = EmptyToken
    /\ carriedCode = EmptyCode
    /\ last = [ep |-> "flow", authAt |-> 0, codes |-> {}, redeemed |-> NotRedeemed]

\* the browser is sent to /auth/{provider}; the flow starts when it answers 302
FlowAuthorize ==
    /\ last.ep = "flow"
    /\ carriedState = EmptyToken
    /\ \E clientID \in {"website", "admin"}, redirectURI \in {WebCallback, AdminCallback},
          providerName \in {"discord", "steam"} :
         LET resp == Authorize(clientID, redirectURI, providerName, Nonce0) IN
         /\ resp.status = StatusFound
         /\ carriedState' = resp.location.state
         /\ last' = [last EXCEPT !.authAt = now]
    /\ UNCHANGED <<clients, providers, stateService, codec, now, elapsed, carriedCode>>

\* the provider sends the browser back to /callback/{provider} with the token;
\* a 302 hands the client a code
FlowCallback ==
    /\ last.ep = "flow"
    /\ carriedState # EmptyToken
    /\ \E providerName \in {"discord", "steam"} :
         LET resp == Callback(providerName, GoodParams @@ [state |-> carriedState],
                              UpstreamOK(DiscordUserFull), Nonce0) IN
         /\ resp.status = StatusFound
         /\ carriedCode' = resp.location.code
         /\ last' = [last EXCEPT !.codes = @ \cup {[code |-> resp.location.code,
                                                   at |-> now]}]
    /\ UNCHANGED <<clients, providers, stateService, codec, now, elapsed, carriedState>>

\* the client's backend redeems a code it was handed
FlowExchange ==
    /\ last.ep = "flow"
    /\ \E c \in last.codes, key \in {WebKey, AdminKey} :
         LET resp == Exchange(c.code, <<"Bearer", key>>) IN
         last' = [last EXCEPT !.redeemed = [status |-> resp.status, minted |-> c.at,
                                            at |-> now, body |-> resp.body]]
    /\ Frame

\* time passes between the steps
FlowTick ==
    /\ last.ep = "flow"
    /\ Cardinality(elapsed) < MaxTicks
    /\ \E d \in TickSteps \ elapsed :
         /\ now' = now + d
         /\ elapsed' = elapsed \cup {d}
    /\ UNCHANGED <<clients, providers, stateService, codec, carriedState, carriedCode, last>>

NextFlow == FlowAuthorize \/ FlowCallback \/ FlowExchange \/ FlowTick

FlowSpec == InitFlow /\ [][NextFlow]_vars

\* C39: with one non-decreasing clock read by both codecs, /exchange returns
\* 200 at time t only if the /callback that minted the code ran at some t_c
\* with t - t_c <= 30 s and the /auth that issued the state token of that
\* callback ran at some t_a with t_c - t_a <= 5 min; no user profile is
\* released more than 5 min 30 s after the flow was started.
C39_EndToEndFreshness ==
    last.ep = "flow" =>
      /\ \A c \in last.codes :
            /\ last.authAt <= c.at
            /\ c.at - last.authAt <= defaultExpiry
      /\ last.redeemed.status = StatusOK =>
            /\ last.redeemed.minted <= last.redeemed.at
            /\ last.redeemed.at - last.redeemed.minted <= defaultCodeExpiry
            /\ last.redeemed.minted - last.authAt <= defaultExpiry
            /\ last.redeemed.at - last.authAt <= defaultExpiry + defaultCodeExpiry
      /\ last.redeemed.body # NoBody => last.redeemed.status = StatusOK

\* a code minted 300 s after /auth was redeemed 30 s later
C39_Witness ==
    /\ last.ep = "flow"
    /\ last.redeemed.status = StatusOK
    /\ last.redeemed.body # NoBody
    /\ last.redeemed.minted - last.authAt = defaultExpiry
    /\ last.redeemed.at - last.redeemed.minted = defaultCodeExpiry

\* C40: the issuers own the lifetime fields: issue overwrites any nonce and
\* expires_at of its input with a fresh nonce and now + 5 min, encode
\* overwrites any expires_at of its input with now + 30 s, every other field
\* is left as it was, and no value supplied by the caller extends the
\* lifetime of a token or code.
C40_IssuersOwnLifetime ==
    /\ last.ep = "generate" =>
          LET v == Validate(stateService, now, last.token) IN
          /\ v.err = NoErr
          /\ v.payload = [last.payload EXCEPT !.Nonce = last.nonce,
                                              !.ExpiresAt = now + defaultExpiry]
          /\ v.payload.Nonce \in Nonces
          /\ Validate(stateService, now + defaultExpiry, last.token).err = NoErr
          /\ Validate(stateService, now + defaultExpiry + 1, last.token).err
                = ErrExpiredState
    /\ last.ep = "encode" =>
          LET d == Decode(codec, now, last.code) IN
          /\ d.err = NoErr
          /\ d.payload = [last.payload EXCEPT !.ExpiresAt = now + defaultCodeExpiry]
          /\ Decode(codec, now + defaultCodeExpiry, last.code).err = NoErr
          /\ Decode(codec, now + defaultCodeExpiry + 1, last.code).err
                = ErrExpiredExchangeCode

\* Generate was handed a payload with a nonce and a far expires_at of the
\* caller's, at a time other than the start
C40_Witness ==
    /\ last.ep = "generate"
    /\ now > 0
    /\ last.payload.Nonce = "caller-nonce"
    /\ last.payload.ExpiresAt = 86400
    /\ UnmarshalState(last.token.enc.obj).ExpiresAt = now + defaultExpiry
    /\ UnmarshalState(last.token.enc.obj).Nonce = last.nonce

====
